---- MODULE Spec2Model ----
(***************************************************************************)
(* infinitrain: the job lifecycle state machine (pkg/job) and the          *)
(* in-memory job store (internal/scheduler), modelled over an explicit     *)
(* heap: Go's *job.Job, *time.Time, []string and map[string]string are     *)
(* references, and a struct copy (jobCopy := *j) copies the references,    *)
(* not what they point to.                                                 *)
(* The worker (internal/worker) is modelled with its flags, its in-flight   *)
(* map and every ExecuteJob call as a sequence of steps that concurrent     *)
(* calls interleave with.                                                   *)
(* The executor (JobExecutor.Execute) is modelled as one call blocked in    *)
(* its strategy while time passes and the caller may cancel; JobRequest     *)
(* (Validate, ToJob) and GenerateJobID are modelled over the bytes of the   *)
(* strings they parse and format, durations counted in milliseconds.        *)
(***************************************************************************)
EXTENDS Integers, Sequences, FiniteSets, TLC

(* ---- bounds ---- *)
MaxJobs == 3          \* Job structs allocated in one run
MaxTimes == 2         \* time.Time values whose address is taken (&now)
MaxRequests == 1      \* jobs built from scratch by a caller (one Tags array, one Environment map each)
MaxTime == 2          \* readings of the wall clock
MaxAssign == 1        \* direct field assignments made by callers
NumIDs == 2           \* distinct job IDs in play
MaxCalls == 5         \* calls of NewJob and of the store's methods in one run
MaxExec == 2          \* ExecuteJob calls in one run
MaxTimeout == 1       \* the longest Job.Timeout, in clock ticks
MaxElapsed == 2       \* clock ticks one Execute call is watched for
MaxPriority == 2      \* the highest JobRequest.Priority
MaxRetries == 1       \* the highest JobRequest.Retries
MaxRandom == 1        \* the highest value of the last random byte of an ID
MaxCallers == 2       \* goroutines calling GenerateJobID
MaxGoroutines == 2    \* goroutines calling Worker methods at the same time

(* ---- values ---- *)
NIL == 0
NoJob == [ID |-> "<unallocated>"]
IDNames == <<"j1", "j2", "j3", "j4">>
JobIDs == {IDNames[i] : i \in 1..NumIDs}

JobAddrs == 1..MaxJobs
TimeAddrs == 1..MaxTimes
RefAddrs == 1..MaxRequests

JobStatusPending == "pending"
JobStatusQueued == "queued"
JobStatusRunning == "running"
JobStatusCompleted == "completed"
JobStatusFailed == "failed"
JobStatusCancelled == "cancelled"
JobStatusRetrying == "retrying"
JobStatuses ==
  {JobStatusPending, JobStatusQueued, JobStatusRunning, JobStatusCompleted,
   JobStatusFailed, JobStatusCancelled, JobStatusRetrying}

\* WorkerConfig.MaxConcurrentJobs, as configured for every worker of the model
MaxConcurrentJobs == 1
WorkerNames == <<"worker-1", "worker-2">>
Workers == {WorkerNames[1], WorkerNames[2]}
ExecIDs == 1..MaxExec

ValidationError == "ValidationError"
JobNotFoundError == "JobNotFoundError"
NoError == "nil"

VARIABLES
  heap,       \* job address -> Job struct (NoJob: not allocated)
  times,      \* time address -> the time.Time stored there (NIL: not allocated)
  tagArrs,    \* array address -> backing array of a Tags slice (<<>>: not allocated)
  envMaps,    \* map address -> contents of an Environment map
  held,       \* job addresses callers hold a pointer to
  jobs,       \* MemoryStore.jobs: ID -> job address (NIL: absent)
  now,        \* the wall clock
  last,       \* the call that was made last and what it returned
  deleted,    \* IDs that Delete has removed at some point
  assigned,   \* number of direct field assignments made so far
  calls,      \* number of NewJob and store calls made so far
  isRunning,  \* Worker.isRunning, per worker
  isHealthy,  \* Worker.isHealthy, per worker
  currentJobs, \* Worker.currentJobs, per worker: job ID -> job address (NIL: no entry)
  execs,      \* the ExecuteJob calls of the run: where each stands and what it has done
  stopping,   \* per worker: where its Stop call stands ("no": none is under way)
  run,        \* the JobExecutor.Execute call of the run: its job, its scope, where it stands
  conv,       \* a JobRequest, and what the last Validate or ToJob call on it returned
  gen,        \* the GenerateJobID calls of the run, per caller
  goroutines  \* the goroutines running Worker methods: the method, the next instruction

workerVars == <<isRunning, isHealthy, currentJobs, execs, stopping, run, conv, gen, goroutines>>
vars == <<heap, times, tagArrs, envMaps, held, jobs, now, last, deleted, assigned, calls,
          isRunning, isHealthy, currentJobs, execs, stopping, run, conv, gen, goroutines>>

(* ---- allocation ---- *)
FreeJobAddrs == {a \in DOMAIN heap : heap[a] = NoJob}
FreshJob == IF FreeJobAddrs = {} THEN NIL ELSE CHOOSE a \in FreeJobAddrs : \A b \in FreeJobAddrs : a <= b
FreeTimeAddrs == {a \in TimeAddrs : times[a] = NIL}
FreshTime == IF FreeTimeAddrs = {} THEN NIL ELSE CHOOSE a \in FreeTimeAddrs : \A b \in FreeTimeAddrs : a <= b
FreeRefAddrs == {a \in RefAddrs : tagArrs[a] = <<>>}
FreshRef == IF FreeRefAddrs = {} THEN NIL ELSE CHOOSE a \in FreeRefAddrs : \A b \in FreeRefAddrs : a <= b

\* one more call, while the run's budget of calls lasts
Called == calls < MaxCalls /\ calls' = calls + 1

Call(op, id, addr, arg, err, res) ==
  [op |-> op, id |-> id, addr |-> addr, arg |-> arg, err |-> err, res |-> res]

\* the call records before any ExecuteJob call was made; before is the Status and
\* the WorkerID the job had when the call was made
NoExec == [pc |-> "idle", w |-> "", j |-> NIL, invoked |-> FALSE, registered |-> FALSE,
           result |-> "", err |-> NoError, before |-> <<"", "">>]

\* error values: the dynamic type and the text of Error(); a nil error
Errorf(text) == [type |-> "errorString", text |-> text]
NilError == [type |-> "nil", text |-> ""]

\* a nil *JobResult, and the state before Execute was called
NoResult == [JobID |-> "", Status |-> "", Output |-> "", Error |-> "", ExitCode |-> 0]
NoOutcome == [output |-> "", exitCode |-> 0, err |-> NilError, streams |-> <<"", "">>]
NoRun == [pc |-> "idle",
          j |-> [ID |-> "", Type |-> "", Timeout |-> 0, Command |-> "",
                 Environment |-> [k \in {} |-> ""]],
          elapsed |-> 0, cancelled |-> FALSE,
          outcome |-> NoOutcome, result |-> NoResult, err |-> NilError]

\* a JobRequest with no field set, a nil *Job, and the state before any call on a request
NoRequest == [Type |-> "", Command |-> "", Script |-> "", URL |-> "", Method |-> "",
              FilePath |-> "", Timeout |-> "", Retries |-> 0, Priority |-> 0,
              Tags |-> NIL, Environment |-> NIL]
NoConverted == [ID |-> <<>>]
NoConv == [jr |-> NoRequest, op |-> "none", before |-> NoRequest, err |-> NilError,
           job |-> NoConverted]

\* the callers of GenerateJobID before their calls
Callers == 1..MaxCallers
NoGen == [c \in Callers |-> [pc |-> "idle", timestamp |-> 0, id |-> <<>>]]

\* the goroutines that call Worker methods, and the two Start launches
Goroutines == 1..(MaxGoroutines + 2)
LoopGoroutine(loop) == MaxGoroutines + (IF loop = "heartbeatLoop" THEN 1 ELSE 2)
\* no goroutine is in a method; inside is TRUE while a field access is under way
NoGoroutine == [op |-> "", pc |-> 0, inside |-> FALSE]
NoGoroutines == [g \in Goroutines |-> NoGoroutine]

\* NewWorker: not running, healthy, nothing in flight
NewWorkers ==
  /\ isRunning = [w \in Workers |-> FALSE]
  /\ isHealthy = [w \in Workers |-> TRUE]
  /\ currentJobs = [w \in Workers |-> [id \in JobIDs |-> NIL]]
  /\ execs = [e \in ExecIDs |-> NoExec]
  /\ stopping = [w \in Workers |-> "no"]
  /\ run = NoRun
  /\ conv = NoConv
  /\ gen = NoGen
  /\ goroutines = NoGoroutines

(* ---- pkg/job: the status machine ---- *)
CanTransitionTo_SelfLoop(status, newStatus) ==
  CASE status = JobStatusPending -> newStatus \in {JobStatusQueued, JobStatusCancelled}
    [] status = JobStatusQueued -> newStatus \in {JobStatusRunning, JobStatusCancelled}
    [] status = JobStatusRunning ->
         newStatus \in {JobStatusCompleted, JobStatusFailed, JobStatusCancelled,
                        JobStatusRetrying, JobStatusRunning}
    [] status = JobStatusRetrying ->
         newStatus \in {JobStatusQueued, JobStatusFailed, JobStatusCancelled}
    [] status \in {JobStatusCompleted, JobStatusFailed, JobStatusCancelled} -> FALSE
    [] OTHER -> FALSE

CanTransitionTo(status, newStatus) ==
  CASE status = JobStatusPending -> newStatus \in {JobStatusQueued, JobStatusCancelled}
    [] status = JobStatusQueued -> newStatus \in {JobStatusRunning, JobStatusCancelled}
    [] status = JobStatusRunning ->
         newStatus \in {JobStatusCompleted, JobStatusFailed, JobStatusCancelled,
                        JobStatusRetrying}
    [] status = JobStatusRetrying ->
         newStatus \in {JobStatusQueued, JobStatusFailed, JobStatusCancelled}
    [] status \in {JobStatusCompleted, JobStatusFailed, JobStatusCancelled} -> FALSE
    [] OTHER -> FALSE

IsTerminal(status) ==
  status \in {JobStatusCompleted, JobStatusFailed, JobStatusCancelled}

IsRunning(status) == status = JobStatusRunning

IsPending_PendingOnly(status) == status = JobStatusPending

IsPending(status) == status = JobStatusPending \/ status = JobStatusQueued

\* Job.UpdateStatus on the struct j; ta is the address &now would get.
\* stamp tells whether &now was stored in the job (so that now escapes).
UpdateStatus_AssignFirst(j, newStatus, ta) ==
  IF ~CanTransitionTo(j.Status, newStatus)
  THEN [job |-> [j EXCEPT !.Status = newStatus], err |-> ValidationError, stamp |-> FALSE]
  ELSE IF newStatus = JobStatusRunning /\ j.StartedAt = NIL
  THEN [job |-> [j EXCEPT !.Status = newStatus, !.StartedAt = ta], err |-> NoError, stamp |-> TRUE]
  ELSE IF IsTerminal(newStatus) /\ j.CompletedAt = NIL
  THEN [job |-> [j EXCEPT !.Status = newStatus, !.CompletedAt = ta], err |-> NoError, stamp |-> TRUE]
  ELSE [job |-> [j EXCEPT !.Status = newStatus], err |-> NoError, stamp |-> FALSE]

UpdateStatus_AlwaysStamp(j, newStatus, ta) ==
  IF ~CanTransitionTo(j.Status, newStatus)
  THEN [job |-> j, err |-> ValidationError, stamp |-> FALSE]
  ELSE IF newStatus = JobStatusRunning
  THEN [job |-> [j EXCEPT !.Status = newStatus, !.StartedAt = ta], err |-> NoError, stamp |-> TRUE]
  ELSE IF IsTerminal(newStatus)
  THEN [job |-> [j EXCEPT !.Status = newStatus, !.CompletedAt = ta], err |-> NoError, stamp |-> TRUE]
  ELSE [job |-> [j EXCEPT !.Status = newStatus], err |-> NoError, stamp |-> FALSE]

UpdateStatus(j, newStatus, ta) ==
  IF ~CanTransitionTo(j.Status, newStatus)
  THEN [job |-> j, err |-> ValidationError, stamp |-> FALSE]
  ELSE IF newStatus = JobStatusRunning /\ j.StartedAt = NIL
  THEN [job |-> [j EXCEPT !.Status = newStatus, !.StartedAt = ta], err |-> NoError, stamp |-> TRUE]
  ELSE IF IsTerminal(newStatus) /\ j.CompletedAt = NIL
  THEN [job |-> [j EXCEPT !.Status = newStatus, !.CompletedAt = ta], err |-> NoError, stamp |-> TRUE]
  ELSE [job |-> [j EXCEPT !.Status = newStatus], err |-> NoError, stamp |-> FALSE]

\* the value a *time.Time field shows to a reader (NIL for a nil pointer)
Deref(p) == IF p = NIL THEN NIL ELSE times[p]
StartedAtOf(a) == Deref(heap[a].StartedAt)
CompletedAtOf(a) == Deref(heap[a].CompletedAt)

(* ---- state after construction ---- *)
EmptyHeap ==
  /\ heap = [a \in JobAddrs |-> NoJob]
  /\ times = [a \in TimeAddrs |-> NIL]
  /\ tagArrs = [a \in RefAddrs |-> <<>>]
  /\ envMaps = [a \in RefAddrs |-> <<>>]
  /\ held = {}
  /\ jobs = [id \in JobIDs |-> NIL]
  /\ now = 1
  /\ last = Call("init", "", NIL, "", NoError, {})
  /\ deleted = {}
  /\ assigned = 0
  /\ calls = 0
  /\ NewWorkers

\* a Job literal as the tests build it: &Job{ID: ..., Status: JobStatusPending}
JobLiteral(id, status, t) ==
  [ID |-> id, Type |-> "command", Status |-> status, WorkerID |-> "", Priority |-> 1,
   CreatedAt |-> t, StartedAt |-> NIL, CompletedAt |-> NIL, Tags |-> NIL,
   Environment |-> NIL, Output |-> "", Error |-> "", ExitCode |-> 0]

(* ---- a caller calling j.UpdateStatus(newStatus) on a job it holds ---- *)
JobUpdateStatus(a, newStatus) ==
  /\ a \in held
  /\ LET ta == FreshTime
         r == UpdateStatus(heap[a], newStatus, ta)
     IN /\ r.stamp => ta # NIL
        /\ heap' = [heap EXCEPT ![a] = r.job]
        /\ times' = IF r.stamp THEN [times EXCEPT ![ta] = now] ELSE times
        /\ last' = Call("Job.UpdateStatus", heap[a].ID, a, newStatus, r.err, {})
  /\ UNCHANGED <<tagArrs, envMaps, held, jobs, now, deleted, assigned, calls, workerVars>>

\* time passes
Tick ==
  /\ now < MaxTime
  /\ now' = now + 1
  /\ last' = Call("tick", "", NIL, "", NoError, {})
  /\ UNCHANGED <<heap, times, tagArrs, envMaps, held, jobs, deleted, assigned, calls, workerVars>>

(* ---- one pending job driven only through UpdateStatus ---- *)
InitJob ==
  /\ heap = [a \in JobAddrs |-> IF a = 1 THEN JobLiteral("j1", JobStatusPending, 1) ELSE NoJob]
  /\ times = [a \in TimeAddrs |-> NIL]
  /\ tagArrs = [a \in RefAddrs |-> <<>>]
  /\ envMaps = [a \in RefAddrs |-> <<>>]
  /\ held = {1}
  /\ jobs = [id \in JobIDs |-> NIL]
  /\ now = 1
  /\ last = Call("init", "", NIL, "", NoError, {})
  /\ deleted = {}
  /\ assigned = 0
  /\ calls = 0
  /\ NewWorkers

NextJob ==
  \/ \E a \in JobAddrs, s \in JobStatuses : JobUpdateStatus(a, s)
  \/ Tick

SpecJob == InitJob /\ [][NextJob]_vars

(* ---- callers: building jobs and writing to the jobs they hold ---- *)

\* a job as ToJob builds it; withRefs: the request carried Tags and Environment
NewJob(id, withRefs) ==
  LET a == FreshJob
      r == FreshRef
  IN /\ a # NIL
     /\ withRefs => r # NIL
     /\ heap' = [heap EXCEPT ![a] =
                   IF withRefs
                   THEN [JobLiteral(id, JobStatusPending, now) EXCEPT !.Tags = r, !.Environment = r]
                   ELSE JobLiteral(id, JobStatusPending, now)]
     /\ tagArrs' = IF withRefs THEN [tagArrs EXCEPT ![r] = <<"test">>] ELSE tagArrs
     /\ envMaps' = IF withRefs THEN [envMaps EXCEPT ![r] = <<"v1">>] ELSE envMaps
     /\ held' = held \cup {a}
     /\ last' = Call("NewJob", id, a, "", NoError, {a})
     /\ UNCHANGED <<times, jobs, now, deleted, assigned, workerVars>>
     /\ Called

ScalarFields == {"Status", "WorkerID", "Priority", "Output", "Error", "ExitCode"}

FieldValues(f) ==
  CASE f = "Status" -> {JobStatusPending, JobStatusCompleted}
    [] f = "WorkerID" -> {"", "worker-1"}
    [] f = "Priority" -> {1, 2}
    [] f = "Output" -> {"", "hi"}
    [] f = "Error" -> {"", "exit status 1"}
    [] f = "ExitCode" -> {0, 1}

\* j.<field> = v on a job the caller holds
Assign(a, f, v) ==
  /\ a \in held
  /\ assigned < MaxAssign
  /\ heap[a][f] # v
  /\ heap' = [heap EXCEPT ![a][f] = v]
  /\ assigned' = assigned + 1
  /\ last' = Call("assign", heap[a].ID, a, f, NoError, {})
  /\ UNCHANGED <<times, tagArrs, envMaps, held, jobs, now, deleted, calls, workerVars>>

\* j.Tags[0] = v
SetTag(a, v) ==
  /\ a \in held
  /\ assigned < MaxAssign
  /\ heap[a].Tags # NIL
  /\ tagArrs[heap[a].Tags][1] # v
  /\ tagArrs' = [tagArrs EXCEPT ![heap[a].Tags][1] = v]
  /\ assigned' = assigned + 1
  /\ last' = Call("settag", heap[a].ID, a, v, NoError, {})
  /\ UNCHANGED <<heap, times, envMaps, held, jobs, now, deleted, calls, workerVars>>

\* j.Environment["K"] = v
SetEnv(a, v) ==
  /\ a \in held
  /\ assigned < MaxAssign
  /\ heap[a].Environment # NIL
  /\ envMaps[heap[a].Environment][1] # v
  /\ envMaps' = [envMaps EXCEPT ![heap[a].Environment][1] = v]
  /\ assigned' = assigned + 1
  /\ last' = Call("setenv", heap[a].ID, a, v, NoError, {})
  /\ UNCHANGED <<heap, times, tagArrs, held, jobs, now, deleted, calls, workerVars>>

\* *j.StartedAt = t  or  *j.CompletedAt = t
SetTime(a, f, t) ==
  /\ a \in held
  /\ assigned < MaxAssign
  /\ heap[a][f] # NIL
  /\ times[heap[a][f]] # t
  /\ times' = [times EXCEPT ![heap[a][f]] = t]
  /\ assigned' = assigned + 1
  /\ last' = Call("settime", heap[a].ID, a, f, NoError, {})
  /\ UNCHANGED <<heap, tagArrs, envMaps, held, jobs, now, deleted, calls, workerVars>>

(* ---- internal/scheduler: MemoryStore ---- *)

\* a Job struct nobody points to any more is collected
Release(h, o, keep) == IF o = NIL \/ o \in keep THEN h ELSE [h EXCEPT ![o] = NoJob]

CreateErr_Overwrite(exists, id) == NoError
CreateErr(exists, id) == IF exists THEN ValidationError ELSE NoError

\* the pointer Create and Update put in s.jobs: the copy c, not the caller's j
StoredPtr_NoCopy(j, c) == j
StoredPtr(j, c) == c

\* the pointer Get and List hand out: the copy c, not the stored job
ReturnedPtr_NoCopy(stored, c) == stored
ReturnedPtr(stored, c) == c

Create(a) ==
  LET id == heap[a].ID
      c == FreshJob
      err == CreateErr(jobs[id] # NIL, id)
  IN /\ a \in held
     /\ last' = Call("Create", id, a, "", err, {})
     /\ IF err # NoError
        THEN UNCHANGED <<heap, jobs>>
        ELSE /\ c # NIL
             /\ jobs' = [jobs EXCEPT ![id] = StoredPtr(a, c)]
             /\ heap' = Release([heap EXCEPT ![c] = heap[a]], jobs[id],
                                held \cup {jobs'[i] : i \in JobIDs})
     /\ UNCHANGED <<times, tagArrs, envMaps, held, now, deleted, assigned, workerVars>>
     /\ Called

Get(id) ==
  LET c == FreshJob
  IN /\ IF jobs[id] = NIL
        THEN /\ last' = Call("Get", id, NIL, "", JobNotFoundError, {})
             /\ UNCHANGED <<heap, held>>
        ELSE /\ c # NIL
             /\ heap' = [heap EXCEPT ![c] = heap[jobs[id]]]
             /\ held' = held \cup {ReturnedPtr(jobs[id], c)}
             /\ last' = Call("Get", id, ReturnedPtr(jobs[id], c), "", NoError,
                             {ReturnedPtr(jobs[id], c)})
     /\ UNCHANGED <<times, tagArrs, envMaps, jobs, now, deleted, assigned, workerVars>>
     /\ Called

UpdateErr_Upsert(exists, id) == NoError
UpdateErr(exists, id) == IF ~exists THEN JobNotFoundError ELSE NoError

\* the copy takes the place of the struct it replaces when nobody else points to that
Update(a) ==
  LET id == heap[a].ID
      c == IF jobs[id] # NIL /\ jobs[id] \notin held THEN jobs[id] ELSE FreshJob
      err == UpdateErr(jobs[id] # NIL, id)
  IN /\ a \in held
     /\ last' = Call("Update", id, a, "", err, {})
     /\ IF err # NoError
        THEN UNCHANGED <<heap, jobs>>
        ELSE /\ c # NIL
             /\ jobs' = [jobs EXCEPT ![id] = StoredPtr(a, c)]
             /\ heap' = Release([heap EXCEPT ![c] = heap[a]], jobs[id],
                                held \cup {jobs'[i] : i \in JobIDs})
     /\ UNCHANGED <<times, tagArrs, envMaps, held, now, deleted, assigned, workerVars>>
     /\ Called

Delete(id) ==
  /\ IF jobs[id] = NIL
     THEN /\ last' = Call("Delete", id, NIL, "", JobNotFoundError, {})
          /\ UNCHANGED <<heap, jobs, deleted>>
     ELSE /\ jobs' = [jobs EXCEPT ![id] = NIL]
          /\ heap' = Release(heap, jobs[id], held \cup {jobs'[i] : i \in JobIDs})
          /\ deleted' = deleted \cup {id}
          /\ last' = Call("Delete", id, NIL, "", NoError, {})
  /\ UNCHANGED <<times, tagArrs, envMaps, held, now, assigned, workerVars>>
  /\ Called

\* s.jobs[jobID].UpdateStatus(status): the stored struct is updated in place
StoreApply_Direct(j, status, ta) ==
  [job |-> [j EXCEPT !.Status = status], err |-> NoError, stamp |-> FALSE]
StoreApply(j, status, ta) == UpdateStatus(j, status, ta)

StoreUpdateStatus(id, status) ==
  /\ IF jobs[id] = NIL
     THEN /\ last' = Call("Store.UpdateStatus", id, NIL, status, JobNotFoundError, {})
          /\ UNCHANGED <<heap, times>>
     ELSE LET ta == FreshTime
              r == StoreApply(heap[jobs[id]], status, ta)
          IN /\ r.stamp => ta # NIL
             /\ heap' = [heap EXCEPT ![jobs[id]] = r.job]
             /\ times' = IF r.stamp THEN [times EXCEPT ![ta] = now] ELSE times
             /\ last' = Call("Store.UpdateStatus", id, jobs[id], status, r.err, {})
  /\ UNCHANGED <<tagArrs, envMaps, held, jobs, now, deleted, assigned, workerVars>>
  /\ Called

(* ---- MemoryStore.List and its filters ---- *)

\* Go values held in an interface{}: a dynamic type and a value
StringValue(s) == [t |-> "string", v |-> s]
IntValue(n) == [t |-> "int", v |-> n]
TimeValue(n) == [t |-> "time.Time", v |-> n]
NilValue == [t |-> "nil", v |-> NIL]
SliceValue(q) == [t |-> "[]interface{}", v |-> q]

\* the bytes of the strings that occur in the model
Bytes(s) ==
  CASE s = "" -> <<>>
    [] s = "pending" -> <<112, 101, 110, 100, 105, 110, 103>>
    [] s = "queued" -> <<113, 117, 101, 117, 101, 100>>
    [] s = "running" -> <<114, 117, 110, 110, 105, 110, 103>>
    [] s = "completed" -> <<99, 111, 109, 112, 108, 101, 116, 101, 100>>
    [] s = "failed" -> <<102, 97, 105, 108, 101, 100>>
    [] s = "cancelled" -> <<99, 97, 110, 99, 101, 108, 108, 101, 100>>
    [] s = "retrying" -> <<114, 101, 116, 114, 121, 105, 110, 103>>
    [] s = "command" -> <<99, 111, 109, 109, 97, 110, 100>>
    [] s = "j1" -> <<106, 49>>
    [] s = "j2" -> <<106, 50>>
    [] s = "j3" -> <<106, 51>>
    [] s = "j4" -> <<106, 52>>
    [] s = "worker-1" -> <<119, 111, 114, 107, 101, 114, 45, 49>>
    [] s = "hi" -> <<104, 105>>
    [] s = "exit status 1" -> <<101, 120, 105, 116, 32, 115, 116, 97, 116, 117, 115, 32, 49>>
    [] s = "test" -> <<116, 101, 115, 116>>
    [] s = "v1" -> <<118, 49>>
    [] s = "changed" -> <<99, 104, 97, 110, 103, 101, 100>>
    [] s = "J" -> <<74>>
    [] s = "2" -> <<50>>
    [] s = "ing" -> <<105, 110, 103>>
    [] s = "ING" -> <<73, 78, 71>>
    [] s = "ed" -> <<101, 100>>
    [] s = "5m" -> <<53, 109>>
    [] s = "50ms" -> <<53, 48, 109, 115>>
    [] s = "1h30m" -> <<49, 104, 51, 48, 109>>
    [] s = "0" -> <<48>>
    [] s = "0s" -> <<48, 115>>
    [] s = "-1s" -> <<45, 49, 115>>
    [] s = "abc" -> <<97, 98, 99>>
    [] s = "5" -> <<53>>

\* a < b on Go strings: byte-wise lexicographic order
RECURSIVE BytesLess(_, _)
BytesLess(a, b) ==
  IF b = <<>> THEN FALSE
  ELSE IF a = <<>> THEN TRUE
  ELSE IF Head(a) # Head(b) THEN Head(a) < Head(b)
  ELSE BytesLess(Tail(a), Tail(b))

toLowerCase(b) == IF b >= 65 /\ b <= 90 THEN b + 32 ELSE b

findSubstring(str, substr) ==
  \E i \in 0..(Len(str) - Len(substr)) :
    \A k \in 1..Len(substr) : toLowerCase(str[i + k]) = toLowerCase(substr[k])

\* contains on the bytes of two strings
contains(str, substr) ==
  /\ Len(str) >= Len(substr)
  /\ \/ str = substr
     \/ (Len(substr) > 0 /\ findSubstring(str, substr))

compareValues(a, b) ==
  IF a.t = "int" /\ b.t = "int"
  THEN (IF a.v < b.v THEN -1 ELSE IF a.v > b.v THEN 1 ELSE 0)
  ELSE IF a.t = "string" /\ b.t = "string"
  THEN (IF BytesLess(Bytes(a.v), Bytes(b.v)) THEN -1
        ELSE IF BytesLess(Bytes(b.v), Bytes(a.v)) THEN 1 ELSE 0)
  ELSE IF a.t = "time.Time" /\ b.t = "time.Time"
  THEN (IF a.v < b.v THEN -1 ELSE IF a.v > b.v THEN 1 ELSE 0)
  ELSE 0

KnownFields ==
  {"id", "type", "status", "worker_id", "priority", "created_at", "started_at", "completed_at"}

\* the switch on filter.Field
FieldValue(j, field) ==
  CASE field = "id" -> StringValue(j.ID)
    [] field = "type" -> StringValue(j.Type)
    [] field = "status" -> StringValue(j.Status)
    [] field = "worker_id" -> StringValue(j.WorkerID)
    [] field = "priority" -> IntValue(j.Priority)
    [] field = "created_at" -> TimeValue(j.CreatedAt)
    [] field = "started_at" ->
         IF j.StartedAt # NIL THEN TimeValue(times[j.StartedAt]) ELSE NilValue
    [] field = "completed_at" ->
         IF j.CompletedAt # NIL THEN TimeValue(times[j.CompletedAt]) ELSE NilValue

matchesFilter_NoDefault(j, filter) ==
  LET  fieldValue == IF filter.Field \in KnownFields THEN FieldValue(j, filter.Field) ELSE NilValue
       IN CASE filter.Operator = "eq" -> fieldValue = filter.Value
            [] filter.Operator = "ne" -> fieldValue # filter.Value
            [] filter.Operator = "gt" -> compareValues(fieldValue, filter.Value) > 0
            [] filter.Operator = "lt" -> compareValues(fieldValue, filter.Value) < 0
            [] filter.Operator = "gte" -> compareValues(fieldValue, filter.Value) >= 0
            [] filter.Operator = "lte" -> compareValues(fieldValue, filter.Value) <= 0
            [] filter.Operator = "in" ->
                 /\ filter.Value.t = "[]interface{}"
                 /\ \E k \in 1..Len(filter.Value.v) : fieldValue = filter.Value.v[k]
            [] filter.Operator = "contains" ->
                 /\ fieldValue.t = "string"
                 /\ filter.Value.t = "string"
                 /\ contains(Bytes(fieldValue.v), Bytes(filter.Value.v))
            [] OTHER -> FALSE
matchesFilter(j, filter) ==
  IF filter.Field \notin KnownFields THEN FALSE
  ELSE LET fieldValue == FieldValue(j, filter.Field)
       IN CASE filter.Operator = "eq" -> fieldValue = filter.Value
            [] filter.Operator = "ne" -> fieldValue # filter.Value
            [] filter.Operator = "gt" -> compareValues(fieldValue, filter.Value) > 0
            [] filter.Operator = "lt" -> compareValues(fieldValue, filter.Value) < 0
            [] filter.Operator = "gte" -> compareValues(fieldValue, filter.Value) >= 0
            [] filter.Operator = "lte" -> compareValues(fieldValue, filter.Value) <= 0
            [] filter.Operator = "in" ->
                 /\ filter.Value.t = "[]interface{}"
                 /\ \E k \in 1..Len(filter.Value.v) : fieldValue = filter.Value.v[k]
            [] filter.Operator = "contains" ->
                 /\ fieldValue.t = "string"
                 /\ filter.Value.t = "string"
                 /\ contains(Bytes(fieldValue.v), Bytes(filter.Value.v))
            [] OTHER -> FALSE

matchesFilters_Any(j, filters) ==
  filters = <<>> \/ \E k \in 1..Len(filters) : matchesFilter(j, filters[k])
matchesFilters(j, filters) ==
  \A k \in 1..Len(filters) : matchesFilter(j, filters[k])

Filter(field, operator, value) == [Field |-> field, Operator |-> operator, Value |-> value]

\* the filter lists callers pass to List
FilterLists ==
  { <<>>,
    <<Filter("id", "contains", StringValue("J")), Filter("status", "ne", StringValue("cancelled"))>> }

IDIndex(id) == CHOOSE i \in 1..Len(IDNames) : IDNames[i] = id
\* the k-th free job address
NthFree(k) == CHOOSE a \in FreeJobAddrs : Cardinality({b \in FreeJobAddrs : b < a}) = k - 1

List(filters) ==
  LET matched == {id \in JobIDs : jobs[id] # NIL /\ matchesFilters(heap[jobs[id]], filters)}
      rank(id) == Cardinality({i \in matched : IDIndex(i) < IDIndex(id)}) + 1
      copyOf(id) == NthFree(rank(id))
      result == {ReturnedPtr(jobs[id], copyOf(id)) : id \in matched}
  IN /\ Cardinality(matched) <= Cardinality(FreeJobAddrs)
     /\ heap' = [a \in DOMAIN heap |->
                   IF \E id \in matched : copyOf(id) = a
                   THEN heap[jobs[CHOOSE id \in matched : copyOf(id) = a]]
                   ELSE heap[a]]
     /\ held' = held \cup result
     /\ last' = Call("List", "", NIL, filters, NoError, result)
     /\ UNCHANGED <<times, tagArrs, envMaps, jobs, now, deleted, assigned, workerVars>>
     /\ Called

(* ---- the store and its callers ---- *)
Init == EmptyHeap

\* the statuses callers pass to Store.UpdateStatus in Spec and SpecIsolation
StatusInputs == {JobStatusQueued, JobStatusCancelled}

\* the store's contract: Create, Get, Update, Delete, UpdateStatus
Next ==
  \/ \E id \in JobIDs : NewJob(id, FALSE)
  \/ \E a \in JobAddrs : Create(a)
  \/ \E id \in JobIDs : Get(id)
  \/ \E a \in JobAddrs : Update(a)
  \/ \E id \in JobIDs : Delete(id)
  \/ \E id \in JobIDs, s \in StatusInputs : StoreUpdateStatus(id, s)
  \/ Tick

Spec == Init /\ [][Next]_vars

\* copy isolation: what callers do to the jobs they passed in or got back
NextIsolation ==
  \/ NewJob(IDNames[1], TRUE)
  \/ \E a \in JobAddrs, f \in ScalarFields : \E v \in FieldValues(f) : Assign(a, f, v)
  \/ \E a \in JobAddrs : SetTag(a, "changed")
  \/ \E a \in JobAddrs : SetEnv(a, "changed")
  \/ \E a \in JobAddrs, f \in {"StartedAt", "CompletedAt"}, t \in 1..MaxTime : SetTime(a, f, t)
  \/ \E a \in JobAddrs : Create(a)
  \/ Get(IDNames[1])
  \/ \E a \in JobAddrs : Update(a)
  \/ \E fs \in FilterLists : List(fs)
  \/ StoreUpdateStatus(IDNames[1], JobStatusCancelled)

SpecIsolation == Init /\ [][NextIsolation]_vars

\* Store.UpdateStatus from every status to every status: the store holds one
\* job, created in any status, started or not, completed or not
InitTransitions ==
  \E status \in JobStatuses, started \in BOOLEAN, completed \in BOOLEAN :
    /\ heap = [a \in JobAddrs |->
                 IF a = 1
                 THEN [JobLiteral(IDNames[1], status, 1) EXCEPT
                         !.StartedAt = IF started THEN 1 ELSE NIL,
                         !.CompletedAt = IF completed THEN (IF started THEN 2 ELSE 1) ELSE NIL]
                 ELSE NoJob]
    /\ times = [a \in TimeAddrs |->
                  IF a = 1 /\ (started \/ completed) THEN 1
                  ELSE IF a = 2 /\ started /\ completed THEN 1
                  ELSE NIL]
    /\ tagArrs = [a \in RefAddrs |-> <<>>]
    /\ envMaps = [a \in RefAddrs |-> <<>>]
    /\ held = {}
    /\ jobs = [id \in JobIDs |-> IF id = IDNames[1] THEN 1 ELSE NIL]
    /\ now = 1
    /\ last = Call("init", "", NIL, "", NoError, {})
    /\ deleted = {}
    /\ assigned = 0
    /\ calls = 0
    /\ NewWorkers

NextTransitions ==
  \/ \E s \in JobStatuses : StoreUpdateStatus(IDNames[1], s)
  \/ Tick

SpecTransitions == InitTransitions /\ [][NextTransitions]_vars

(* ---- List queries over a populated store ---- *)

\* the caller lets go of every job it holds (handleMetrics only counts the
\* jobs List returned); the collector reclaims what nothing refers to
Drop ==
  /\ held # {}
  /\ held' = {}
  /\ heap' = [a \in DOMAIN heap |->
                IF a \in held /\ (\A id \in JobIDs : jobs[id] # a) THEN NoJob ELSE heap[a]]
  /\ last' = Call("drop", "", NIL, "", NoError, {})
  /\ UNCHANGED <<times, tagArrs, envMaps, jobs, now, deleted, assigned, calls, workerVars>>

\* room for every stored job and one copy of each
QueryAddrs == 1..(NumIDs + NumIDs)

\* the priority of the pending job in cell a
PriorityAt(a) == IF a % 2 = 0 THEN 2 ELSE 1

\* the store holds one job per ID: the first queued, or running on worker-1
\* since time 1; the others pending; priorities differ
InitQueries ==
  \E running \in BOOLEAN, prio \in {1, 2} :
    /\ heap = [a \in QueryAddrs |->
                 IF a > NumIDs THEN NoJob
                 ELSE IF a = 1
                 THEN [JobLiteral(IDNames[1], IF running THEN JobStatusRunning ELSE JobStatusQueued, 1)
                         EXCEPT !.StartedAt = IF running THEN 1 ELSE NIL,
                                !.WorkerID = IF running THEN "worker-1" ELSE "",
                                !.Priority = prio]
                 ELSE [JobLiteral(IDNames[a], JobStatusPending, 1) EXCEPT
                         !.Priority = PriorityAt(a)]]
    /\ times = [a \in TimeAddrs |-> IF a = 1 /\ running THEN 1 ELSE NIL]
    /\ tagArrs = [a \in RefAddrs |-> <<>>]
    /\ envMaps = [a \in RefAddrs |-> <<>>]
    /\ held = {}
    /\ jobs = [id \in JobIDs |-> IDIndex(id)]
    /\ now = 1
    /\ last = Call("init", "", NIL, "", NoError, {})
    /\ deleted = {}
    /\ assigned = 0
    /\ calls = 0
    /\ NewWorkers

\* the queries callers make: none, one or two filters over fields of each
\* type, with values of each dynamic type
QueryValues ==
  {StringValue("pending"), IntValue(2),
   SliceValue(<<StringValue("j1"), IntValue(2), StringValue("pending")>>)}
QueryFilters ==
  {Filter(f, o, v) : f \in {"id", "status", "priority"},
                     o \in {"eq", "ne", "in", "contains", "gte"}, v \in QueryValues}
QueryLists ==
  {<<>>}
    \cup {<<f>> : f \in QueryFilters}
    \cup {<<Filter("priority", "gte", IntValue(2)), f>> :
            f \in {g \in QueryFilters : g.Operator \in {"eq", "ne"} /\ g.Value.t = "string"}}

\* one query at a time: the result of the last is dropped before the next
NextQueries ==
  \/ \E fs \in QueryLists : held = {} /\ List(fs)
  \/ Drop

SpecQueries == InitQueries /\ [][NextQueries]_vars

\* queries naming a field or an operator the store does not know
Operators == {"eq", "ne", "gt", "lt", "gte", "lte", "in", "contains"}
UnknownValues == {StringValue("pending"), IntValue(2), NilValue}
UnknownFilters ==
  {Filter(f, o, v) : f \in {"name", "Status"}, o \in Operators \cup {"like"}, v \in UnknownValues}
    \cup {Filter(f, o, v) : f \in {"id", "status"}, o \in {"like", "EQ"}, v \in UnknownValues}
UnknownLists == {<<f>> : f \in UnknownFilters}

NextUnknown ==
  \/ \E fs \in UnknownLists : held = {} /\ List(fs)
  \/ held = {} /\ List(<<>>)
  \/ Drop

SpecUnknown == InitQueries /\ [][NextUnknown]_vars

\* ordering queries: fields of each type, set or unset, against values of
\* each dynamic type
OrderingOperators == {"gt", "lt", "gte", "lte"}
OrderingValues == {StringValue("j1"), IntValue(1), TimeValue(1), NilValue}
OrderingFilters ==
  {Filter(f, o, v) : f \in {"id", "priority", "created_at", "started_at", "completed_at"},
                     o \in OrderingOperators, v \in OrderingValues}
OrderingLists == {<<f>> : f \in OrderingFilters}

NextOrdering ==
  \/ \E fs \in OrderingLists : held = {} /\ List(fs)
  \/ Drop

SpecOrdering == InitQueries /\ [][NextOrdering]_vars

\* contains queries: string and non-string fields against string values
\* (the empty one, other case, not occurring) and non-string values
ContainsValues ==
  {StringValue(""), StringValue("J"), StringValue("ING"), StringValue("2"),
   StringValue("ed"), StringValue("worker-1"), IntValue(2), NilValue}
ContainsFilters ==
  {Filter(f, "contains", v) :
     f \in {"id", "status", "worker_id", "priority", "started_at"}, v \in ContainsValues}
ContainsLists == {<<f>> : f \in ContainsFilters}

NextContains ==
  \/ \E fs \in ContainsLists : held = {} /\ List(fs)
  \/ Drop

SpecContains == InitQueries /\ [][NextContains]_vars

(* ---- internal/worker: Worker ---- *)
CannotAcceptError == "worker cannot accept job: at capacity or unhealthy"
StatusUpdateError == "failed to update job status"
ExecuteError == "unsupported job type"
DirectoryError == "failed to create working directory"
ContextError == "context canceled"

IsHealthy_FlagOnly(w) == isHealthy[w]
IsHealthy(w) == isHealthy[w] /\ isRunning[w]
GetCapacity_OneMore(w) == MaxConcurrentJobs + 1
GetCapacity(w) == MaxConcurrentJobs
GetCurrentLoad(w) == Cardinality({id \in JobIDs : currentJobs[w][id] # NIL})
CanAcceptJob_FlagOnly(w) == isHealthy[w] /\ GetCurrentLoad(w) < GetCapacity(w)
CanAcceptJob(w) == IsHealthy(w) /\ GetCurrentLoad(w) < GetCapacity(w)

\* Start: the flag is set before the working directory is made, and stays
\* set when that fails
Start(w) ==
  /\ \E err \in {NoError, DirectoryError} : last' = Call("Start", "", NIL, w, err, {})
  /\ isRunning' = [isRunning EXCEPT ![w] = TRUE]
  /\ UNCHANGED <<heap, times, tagArrs, envMaps, held, jobs, now, deleted, assigned, calls,
                 isHealthy, currentJobs, execs, stopping, run, conv, gen, goroutines>>

\* Stop, up to its loop: the flag is cleared, the timer and the ticker are set
StopBegin(w) ==
  /\ stopping[w] = "no"
  /\ isRunning' = [isRunning EXCEPT ![w] = FALSE]
  /\ stopping' = [stopping EXCEPT ![w] = "waiting"]
  /\ last' = Call("Stop.begin", "", NIL, w, NoError, {})
  /\ UNCHANGED <<heap, times, tagArrs, envMaps, held, jobs, now, deleted, assigned, calls,
                 isHealthy, currentJobs, execs, run, conv, gen, goroutines>>

\* what Stop hands back on each way out of its loop
StopResult(how) == IF how = "cancelled" THEN ContextError ELSE NoError

\* case <-ticker.C: return if nothing is in flight, else keep waiting
StopTick(w) ==
  /\ stopping[w] # "no"
  /\ IF GetCurrentLoad(w) = 0
     THEN /\ stopping' = [stopping EXCEPT ![w] = "no"]
          /\ last' = Call("Stop", "", NIL, w, StopResult("graceful"), "graceful")
     ELSE /\ stopping[w] = "waiting"
          /\ stopping' = [stopping EXCEPT ![w] = "ticked"]
          /\ last' = Call("Stop.tick", "", NIL, w, NoError, {})
  /\ UNCHANGED <<heap, times, tagArrs, envMaps, held, jobs, now, deleted, assigned, calls,
                 isRunning, isHealthy, currentJobs, execs, run, conv, gen, goroutines>>

StopTimeout_KeepsWaiting(w) ==
  /\ stopping[w] = "ticked"
  /\ last' = Call("Stop.tick", "", NIL, w, NoError, {})
  /\ UNCHANGED <<heap, times, tagArrs, envMaps, held, jobs, now, deleted, assigned, calls,
                 workerVars>>

\* case <-timeout: the grace period is over; ticks before it found jobs in flight
StopTimeout(w) ==
  /\ stopping[w] = "ticked"
  /\ stopping' = [stopping EXCEPT ![w] = "no"]
  /\ last' = Call("Stop", "", NIL, w, StopResult("timeout"), "timeout")
  /\ UNCHANGED <<heap, times, tagArrs, envMaps, held, jobs, now, deleted, assigned, calls,
                 isRunning, isHealthy, currentJobs, execs, run, conv, gen, goroutines>>

\* case <-ctx.Done(): the caller's context is done
StopCancelled(w) ==
  /\ stopping[w] # "no"
  /\ stopping' = [stopping EXCEPT ![w] = "no"]
  /\ last' = Call("Stop", "", NIL, w, StopResult("cancelled"), "cancelled")
  /\ UNCHANGED <<heap, times, tagArrs, envMaps, held, jobs, now, deleted, assigned, calls,
                 isRunning, isHealthy, currentJobs, execs, run, conv, gen, goroutines>>

SetHealthy(w, healthy) ==
  /\ isHealthy' = [isHealthy EXCEPT ![w] = healthy]
  /\ last' = Call("SetHealthy", "", NIL, w, NoError, healthy)
  /\ UNCHANGED <<heap, times, tagArrs, envMaps, held, jobs, now, deleted, assigned, calls,
                 isRunning, currentJobs, execs, stopping, run, conv, gen, goroutines>>

\* a caller asks CanAcceptJob
AskCanAcceptJob(w) ==
  /\ last' = Call("CanAcceptJob", "", NIL, w, NoError, CanAcceptJob(w))
  /\ last' # last
  /\ UNCHANGED <<heap, times, tagArrs, envMaps, held, jobs, now, deleted, assigned, calls,
                 workerVars>>

\* ExecuteJob, step by step. Its steps are the units other goroutines can
\* interleave with: each locked section and each access to the job.

\* what ExecuteJob returned, for the call e
Returned(e, x) == Call("ExecuteJob", heap[x.j].ID, x.j, e, x.err, x.result)
\* ExecuteJob has not returned yet
Step(e, x) == Call("ExecuteJob.step", "", NIL, "", NoError, {})

\* the call is made on worker w with the job at a; IsHealthy is read
ExecuteJobBegin(e, w, a) ==
  LET x == [NoExec EXCEPT !.w = w, !.j = a, !.before = <<heap[a].Status, heap[a].WorkerID>>,
                          !.pc = IF IsHealthy(w) THEN "load" ELSE "done",
                          !.err = IF IsHealthy(w) THEN NoError ELSE CannotAcceptError]
  IN /\ execs[e].pc = "idle"
     /\ \A d \in ExecIDs : d < e => execs[d].pc # "idle"
     /\ a \in held
     /\ execs' = [execs EXCEPT ![e] = x]
     /\ last' = IF x.pc = "done" THEN Returned(e, x) ELSE Step(e, x)
     /\ UNCHANGED <<heap, times, tagArrs, envMaps, held, jobs, now, deleted, assigned, calls,
                    isRunning, isHealthy, currentJobs, stopping, run, conv, gen, goroutines>>

\* GetCurrentLoad() < GetCapacity() is read
ExecuteJobLoad(e) ==
  LET accept == GetCurrentLoad(execs[e].w) < GetCapacity(execs[e].w)
      x == [execs[e] EXCEPT !.pc = IF accept THEN "register" ELSE "done",
                            !.err = IF accept THEN NoError ELSE CannotAcceptError]
  IN /\ execs[e].pc = "load"
     /\ execs' = [execs EXCEPT ![e] = x]
     /\ last' = IF x.pc = "done" THEN Returned(e, x) ELSE Step(e, x)
     /\ UNCHANGED <<heap, times, tagArrs, envMaps, held, jobs, now, deleted, assigned, calls,
                    isRunning, isHealthy, currentJobs, stopping, run, conv, gen, goroutines>>

\* w.currentJobs[j.ID] = j, under the lock
ExecuteJobRegister(e) ==
  LET x == [execs[e] EXCEPT !.pc = "transition", !.registered = TRUE]
  IN /\ execs[e].pc = "register"
     /\ currentJobs' = [currentJobs EXCEPT ![x.w][heap[x.j].ID] = x.j]
     /\ execs' = [execs EXCEPT ![e] = x]
     /\ last' = Step(e, x)
     /\ UNCHANGED <<heap, times, tagArrs, envMaps, held, jobs, now, deleted, assigned, calls,
                    isRunning, isHealthy, stopping, run, conv, gen, goroutines>>

ExecuteJobTransition_Unchecked(e) ==
  LET j == [heap[execs[e].j] EXCEPT !.WorkerID = execs[e].w]
      ok == TRUE
      x == [execs[e] EXCEPT !.pc = IF ok THEN "write" ELSE "cleanup",
                            !.err = IF ok THEN NoError ELSE StatusUpdateError]
  IN /\ execs[e].pc = "transition"
     /\ heap' = [heap EXCEPT ![x.j] = j]
     /\ execs' = [execs EXCEPT ![e] = x]
     /\ last' = Step(e, x)
     /\ UNCHANGED <<times, tagArrs, envMaps, held, jobs, now, deleted, assigned, calls,
                    isRunning, isHealthy, currentJobs, stopping, run, conv, gen, goroutines>>

\* j.WorkerID = w.id, then the check UpdateStatus makes first
ExecuteJobTransition(e) ==
  LET j == [heap[execs[e].j] EXCEPT !.WorkerID = execs[e].w]
      ok == UpdateStatus(j, JobStatusRunning, NIL).err = NoError
      x == [execs[e] EXCEPT !.pc = IF ok THEN "write" ELSE "cleanup",
                            !.err = IF ok THEN NoError ELSE StatusUpdateError]
  IN /\ execs[e].pc = "transition"
     /\ heap' = [heap EXCEPT ![x.j] = j]
     /\ execs' = [execs EXCEPT ![e] = x]
     /\ last' = Step(e, x)
     /\ UNCHANGED <<times, tagArrs, envMaps, held, jobs, now, deleted, assigned, calls,
                    isRunning, isHealthy, currentJobs, stopping, run, conv, gen, goroutines>>

\* what UpdateStatus writes once its check has passed; then Execute is entered
ExecuteJobWrite(e) ==
  LET ta == FreshTime
      stamp == heap[execs[e].j].StartedAt = NIL
      x == [execs[e] EXCEPT !.pc = "executing", !.invoked = TRUE]
  IN /\ execs[e].pc = "write"
     /\ stamp => ta # NIL
     /\ heap' = [heap EXCEPT ![x.j].Status = JobStatusRunning,
                             ![x.j].StartedAt = IF stamp THEN ta ELSE @]
     /\ times' = IF stamp THEN [times EXCEPT ![ta] = now] ELSE times
     /\ execs' = [execs EXCEPT ![e] = x]
     /\ last' = Step(e, x)
     /\ UNCHANGED <<tagArrs, envMaps, held, jobs, now, deleted, assigned, calls,
                    isRunning, isHealthy, currentJobs, stopping, run, conv, gen, goroutines>>

\* what Execute hands back: a result (completed or failed), or no result and an error
ExecuteOutcomes ==
  {[result |-> JobStatusCompleted, err |-> NoError],
   [result |-> JobStatusFailed, err |-> NoError],
   [result |-> "", err |-> ExecuteError]}

ExecuteJobExecuted(e) ==
  /\ execs[e].pc = "executing"
  /\ \E o \in ExecuteOutcomes :
       LET x == [execs[e] EXCEPT !.pc = "cleanup", !.result = o.result, !.err = o.err]
       IN /\ execs' = [execs EXCEPT ![e] = x]
          /\ last' = Step(e, x)
  /\ UNCHANGED <<heap, times, tagArrs, envMaps, held, jobs, now, deleted, assigned, calls,
                 isRunning, isHealthy, currentJobs, stopping, run, conv, gen, goroutines>>

ExecuteJobReturn_NoDefer(e) ==
  LET x == [execs[e] EXCEPT !.pc = "done"]
  IN /\ execs[e].pc = "cleanup"
     /\ currentJobs' = IF x.err = NoError
                        THEN [currentJobs EXCEPT ![x.w][heap[x.j].ID] = NIL]
                        ELSE currentJobs
     /\ execs' = [execs EXCEPT ![e] = x]
     /\ last' = Returned(e, x)
     /\ UNCHANGED <<heap, times, tagArrs, envMaps, held, jobs, now, deleted, assigned, calls,
                    isRunning, isHealthy, stopping, run, conv, gen, goroutines>>

\* the deferred delete(w.currentJobs, j.ID), then the return
ExecuteJobReturn(e) ==
  LET x == [execs[e] EXCEPT !.pc = "done"]
  IN /\ execs[e].pc = "cleanup"
     /\ currentJobs' = [currentJobs EXCEPT ![x.w][heap[x.j].ID] = NIL]
     /\ execs' = [execs EXCEPT ![e] = x]
     /\ last' = Returned(e, x)
     /\ UNCHANGED <<heap, times, tagArrs, envMaps, held, jobs, now, deleted, assigned, calls,
                    isRunning, isHealthy, stopping, run, conv, gen, goroutines>>

ExecuteJobStep(e) ==
  \/ ExecuteJobLoad(e)
  \/ ExecuteJobRegister(e)
  \/ ExecuteJobTransition(e)
  \/ ExecuteJobWrite(e)
  \/ ExecuteJobExecuted(e)
  \/ ExecuteJobReturn(e)

\* callers hold two queued jobs, j1 and j2; the workers are as NewWorker made them
InitWorker ==
  /\ heap = [a \in JobAddrs |->
               IF a <= 2 THEN JobLiteral(IDNames[a], JobStatusQueued, 1) ELSE NoJob]
  /\ times = [a \in TimeAddrs |-> NIL]
  /\ tagArrs = [a \in RefAddrs |-> <<>>]
  /\ envMaps = [a \in RefAddrs |-> <<>>]
  /\ held = {1, 2}
  /\ jobs = [id \in JobIDs |-> NIL]
  /\ now = 1
  /\ last = Call("init", "", NIL, "", NoError, {})
  /\ deleted = {}
  /\ assigned = 0
  /\ calls = 0
  /\ NewWorkers

\* one worker, started and marked while ExecuteJob calls come in
NextWorker ==
  \/ Start(WorkerNames[1])
  \/ \E healthy \in BOOLEAN : SetHealthy(WorkerNames[1], healthy)
  \/ AskCanAcceptJob(WorkerNames[1])
  \/ \E e \in ExecIDs, a \in JobAddrs : ExecuteJobBegin(e, WorkerNames[1], a)
  \/ \E e \in ExecIDs : ExecuteJobStep(e)

SpecWorker == InitWorker /\ [][NextWorker]_vars

\* shutdown: a worker is started and stopped while ExecuteJob calls come in
NextStop ==
  \/ Start(WorkerNames[1])
  \/ StopBegin(WorkerNames[1])
  \/ StopTick(WorkerNames[1])
  \/ StopTimeout(WorkerNames[1])
  \/ StopCancelled(WorkerNames[1])
  \/ \E e \in ExecIDs, a \in JobAddrs : ExecuteJobBegin(e, WorkerNames[1], a)
  \/ \E e \in ExecIDs : ExecuteJobStep(e)

SpecStop == InitWorker /\ [][NextStop]_vars

\* two workers are stopped, one of them while it runs a job
NextStopBoth ==
  \/ Start(WorkerNames[1])
  \/ \E w \in Workers : StopBegin(w)
  \/ \E w \in Workers : StopTick(w)
  \/ \E w \in Workers : StopTimeout(w)
  \/ \E w \in Workers : StopCancelled(w)
  \/ ExecuteJobBegin(1, WorkerNames[1], 1)
  \/ ExecuteJobStep(1)

SpecStopBoth == InitWorker /\ [][NextStopBoth]_vars

\* the same, with the ticker and the grace-period timer of every Stop call firing
SpecStopBothFair ==
  /\ SpecStopBoth
  /\ \A w \in Workers : WF_vars(StopTick(w)) /\ WF_vars(StopTimeout(w))

\* dispatch: the store holds the queued job j1, both workers have been
\* started; callers Get the job and hand what they got to a worker
InitDispatch ==
  /\ heap = [a \in JobAddrs |->
               IF a = 1 THEN JobLiteral(IDNames[1], JobStatusQueued, 1) ELSE NoJob]
  /\ times = [a \in TimeAddrs |-> NIL]
  /\ tagArrs = [a \in RefAddrs |-> <<>>]
  /\ envMaps = [a \in RefAddrs |-> <<>>]
  /\ held = {}
  /\ jobs = [id \in JobIDs |-> IF id = IDNames[1] THEN 1 ELSE NIL]
  /\ now = 1
  /\ last = Call("init", "", NIL, "", NoError, {})
  /\ deleted = {}
  /\ assigned = 0
  /\ calls = 0
  /\ isRunning = [w \in Workers |-> TRUE]
  /\ isHealthy = [w \in Workers |-> TRUE]
  /\ currentJobs = [w \in Workers |-> [id \in JobIDs |-> NIL]]
  /\ execs = [e \in ExecIDs |-> NoExec]
  /\ stopping = [w \in Workers |-> "no"]
  /\ run = NoRun
  /\ conv = NoConv
  /\ gen = NoGen
  /\ goroutines = NoGoroutines

NextDispatch ==
  \/ Get(IDNames[1])
  \/ \E e \in ExecIDs, w \in Workers, a \in JobAddrs : ExecuteJobBegin(e, w, a)
  \/ \E e \in ExecIDs : ExecuteJobStep(e)

SpecDispatch == InitDispatch /\ [][NextDispatch]_vars

\* a started worker is handed a job in any status: StartedAt is set in the
\* statuses that lie behind running, CompletedAt in the terminal ones
InitStatuses ==
  \E status \in JobStatuses :
    LET started == status \in {JobStatusRunning, JobStatusRetrying, JobStatusCompleted,
                               JobStatusFailed}
        completed == IsTerminal(status)
    IN /\ heap = [a \in JobAddrs |->
                    IF a = 1
                    THEN [JobLiteral(IDNames[1], status, 1) EXCEPT
                            !.StartedAt = IF started THEN 1 ELSE NIL,
                            !.CompletedAt = IF completed THEN (IF started THEN 2 ELSE 1) ELSE NIL,
                            !.WorkerID = IF started THEN WorkerNames[2] ELSE ""]
                    ELSE NoJob]
       /\ times = [a \in TimeAddrs |->
                     IF a = 1 /\ (started \/ completed) THEN 1
                     ELSE IF a = 2 /\ started /\ completed THEN 1
                     ELSE NIL]
       /\ tagArrs = [a \in RefAddrs |-> <<>>]
       /\ envMaps = [a \in RefAddrs |-> <<>>]
       /\ held = {1}
       /\ jobs = [id \in JobIDs |-> NIL]
       /\ now = 1
       /\ last = Call("init", "", NIL, "", NoError, {})
       /\ deleted = {}
       /\ assigned = 0
       /\ calls = 0
       /\ isRunning = [w \in Workers |-> w = WorkerNames[1]]
       /\ isHealthy = [w \in Workers |-> TRUE]
       /\ currentJobs = [w \in Workers |-> [id \in JobIDs |-> NIL]]
       /\ execs = [e \in ExecIDs |-> NoExec]
       /\ stopping = [w \in Workers |-> "no"]
       /\ run = NoRun
       /\ conv = NoConv
       /\ gen = NoGen
       /\ goroutines = NoGoroutines

NextStatuses ==
  \/ \E e \in ExecIDs, a \in JobAddrs : ExecuteJobBegin(e, WorkerNames[1], a)
  \/ \E e \in ExecIDs : ExecuteJobStep(e)

SpecStatuses == InitStatuses /\ [][NextStatuses]_vars

(* ---- internal/worker: JobExecutor ---- *)
JobTypeCommand == "command"
JobTypeScript == "script"
JobTypeHTTP == "http"
JobTypeFile == "file"

\* the cases of Execute's switch on j.Type
Dispatched(jobType) == jobType \in {JobTypeCommand, JobTypeScript, JobTypeHTTP, JobTypeFile}

CanExecute_NoFile(jobType) == jobType \in {JobTypeCommand, JobTypeScript, JobTypeHTTP}

CanExecute(jobType) == jobType \in {JobTypeCommand, JobTypeScript, JobTypeHTTP, JobTypeFile}

\* the scope the strategy runs under is done: the caller's context was cancelled,
\* or the job has a timeout and it has elapsed
ScopeDone(r) == r.cancelled \/ (r.j.Timeout > 0 /\ r.elapsed >= r.j.Timeout)

\* what a strategy returns; streams is what the process it ran, if it ran one,
\* wrote to stdout and to stderr
Outcome(output, exitCode, err) ==
  [output |-> output, exitCode |-> exitCode, err |-> err, streams |-> <<"", "">>]
ExitError(text) == [type |-> "*exec.ExitError", text |-> text]

\* stdout, and stderr after it when there is any; the separator goes in between
\* when there is output already
Separator == "\n---STDERR---\n"
CombineOutput(stdout, stderr) ==
  IF stderr # ""
  THEN (IF stdout # "" THEN stdout \o Separator ELSE stdout) \o stderr
  ELSE stdout

\* what a process wrote to stdout and to stderr, each with and without content
Streams == {<<stdout, stderr>> : stdout \in {"", "hi"}, stderr \in {"", "oops"}}

\* the process has run: output, exit code and error as the strategy returns them
Ran(s, exitCode, err) ==
  [output |-> CombineOutput(s[1], s[2]), exitCode |-> exitCode, err |-> err, streams |-> s]

\* cmd.Run() of exec.CommandContext: the process exits by itself, cannot be started,
\* or is killed; it is killed when the scope is done
RunOutcomes(done) ==
  IF done
  THEN {Ran(s, 0 - 1, ExitError("signal: killed")) : s \in Streams}
  ELSE {Ran(s, 0, NilError) : s \in Streams}
       \cup {Ran(s, 2, ExitError("exit status 2")) : s \in Streams}
       \cup {Ran(s, 0 - 1, ExitError("signal: killed")) : s \in Streams}
       \cup {Outcome("", 1, Errorf("exec: not started"))}

executeCommand(j, done) ==
  IF j.Command = "" THEN {Outcome("", 1, Errorf("empty command"))}
  ELSE RunOutcomes(done)

executeScript(j, done) ==
  IF done THEN RunOutcomes(done)
  ELSE {Outcome("", 1, Errorf("failed to write script file"))} \cup RunOutcomes(done)

\* the request fails (at once, on the way, or because its context is done), or a
\* response comes back; a status of 400 and above is an error with the body as output
executeHTTP(j, done) ==
  IF done
  THEN {Outcome("", 1, Errorf("HTTP request failed: context done"))}
  ELSE {Outcome("", 1, Errorf("failed to create HTTP request")),
        Outcome("", 1, Errorf("HTTP request failed")),
        Outcome("Status: 200", 0, NilError),
        Outcome("Status: 404", 1, Errorf("HTTP request returned status 404"))}

\* readFile, statFile, listDirectory: none takes the context
FileOutcomes(what) == {Outcome("", 1, Errorf("failed to " \o what)), Outcome("out", 0, NilError)}

executeFile(j, done) ==
  LET operation == IF "FILE_OPERATION" \in DOMAIN j.Environment
                   THEN j.Environment["FILE_OPERATION"] ELSE "read"
  IN CASE operation = "read" -> FileOutcomes("read file")
       [] operation = "stat" -> FileOutcomes("stat file")
       [] operation = "list" -> FileOutcomes("read directory")
       [] OTHER -> {Outcome("", 1, Errorf("unsupported file operation"))}

Strategy(j, done) ==
  CASE j.Type = JobTypeCommand -> executeCommand(j, done)
    [] j.Type = JobTypeScript -> executeScript(j, done)
    [] j.Type = JobTypeHTTP -> executeHTTP(j, done)
    [] j.Type = JobTypeFile -> executeFile(j, done)

\* the JobResult Execute builds from what the strategy returned
ExecuteResult_Completed(j, o) ==
  [JobID |-> j.ID, Status |-> JobStatusCompleted, Output |-> o.output,
   Error |-> IF o.err # NilError THEN o.err.text ELSE "",
   ExitCode |-> IF o.err # NilError /\ o.exitCode = 0 THEN 1 ELSE o.exitCode]

ExecuteResult(j, o) ==
  [JobID |-> j.ID,
   Status |-> IF o.err # NilError THEN JobStatusFailed ELSE JobStatusCompleted,
   Output |-> o.output,
   Error |-> IF o.err # NilError THEN o.err.text ELSE "",
   ExitCode |-> IF o.err # NilError /\ o.exitCode = 0 THEN 1 ELSE o.exitCode]

IsTimeoutError(err) == err.type = "TimeoutError"

\* Execute(ctx, j) up to the strategy it dispatches to; an unsupported type returns at once
Execute(j) ==
  /\ run.pc = "idle"
  /\ IF Dispatched(j.Type)
     THEN /\ run' = [run EXCEPT !.pc = "blocked", !.j = j]
          /\ last' = Call("Execute.begin", j.ID, NIL, j.Type, NoError, {})
     ELSE /\ run' = [run EXCEPT !.pc = "done", !.j = j, !.err = Errorf(ExecuteError)]
          /\ last' = Call("Execute", j.ID, NIL, j.Type, ExecuteError, {})
  /\ UNCHANGED <<heap, times, tagArrs, envMaps, held, jobs, now, deleted, assigned, calls,
                 isRunning, isHealthy, currentJobs, execs, stopping, conv, gen, goroutines>>

\* time passes while the strategy is blocked
ExecuteTick ==
  /\ run.pc = "blocked"
  /\ run.elapsed < MaxElapsed
  /\ run' = [run EXCEPT !.elapsed = @ + 1]
  /\ last' = Call("Execute.tick", run.j.ID, NIL, "", NoError, {})
  /\ UNCHANGED <<heap, times, tagArrs, envMaps, held, jobs, now, deleted, assigned, calls,
                 isRunning, isHealthy, currentJobs, execs, stopping, conv, gen, goroutines>>

\* the caller cancels the context it passed to Execute
ExecuteCancel ==
  /\ run.pc = "blocked"
  /\ ~run.cancelled
  /\ run' = [run EXCEPT !.cancelled = TRUE]
  /\ last' = Call("Execute.cancel", run.j.ID, NIL, "", NoError, {})
  /\ UNCHANGED <<heap, times, tagArrs, envMaps, held, jobs, now, deleted, assigned, calls,
                 isRunning, isHealthy, currentJobs, execs, stopping, conv, gen, goroutines>>

\* the strategy returns and Execute builds and returns the result
ExecuteReturn ==
  /\ run.pc = "blocked"
  /\ \E o \in Strategy(run.j, ScopeDone(run)) :
       /\ run' = [run EXCEPT !.pc = "done", !.outcome = o, !.result = ExecuteResult(run.j, o),
                             !.err = NilError]
       /\ last' = Call("Execute", run.j.ID, NIL, run.j.Type, NoError, {})
  /\ UNCHANGED <<heap, times, tagArrs, envMaps, held, jobs, now, deleted, assigned, calls,
                 isRunning, isHealthy, currentJobs, execs, stopping, conv, gen, goroutines>>

\* the jobs Execute is called with
Timeouts == (0 - 1)..MaxTimeout
NoEnvironment == [k \in {} |-> ""]
FileEnvironments ==
  {NoEnvironment} \cup {[k \in {"FILE_OPERATION"} |-> op] : op \in {"stat", "list", "chmod"}}
ExecuteJobs ==
  {[ID |-> IDNames[1], Type |-> t, Timeout |-> d, Command |-> c, Environment |-> env] :
     t \in {JobTypeCommand, JobTypeScript, JobTypeHTTP, JobTypeFile, "", "docker"},
     d \in Timeouts, c \in {"", "run"}, env \in FileEnvironments}

ExecuteInputs ==
  {j \in ExecuteJobs :
     /\ j.Type # JobTypeCommand => j.Command = ""
     /\ j.Type # JobTypeFile => j.Environment = NoEnvironment}

NextExecute ==
  \/ \E j \in ExecuteInputs : Execute(j)
  \/ ExecuteTick
  \/ ExecuteCancel
  \/ ExecuteReturn

SpecExecute == InitWorker /\ [][NextExecute]_vars

(* ---- pkg/job: JobRequest ---- *)
NewValidationError(message) == [type |-> "ValidationError", text |-> message]

\* what Validate returns and what it leaves in the request
Validate_DefaultFirst(jr) ==
  LET defaulted == IF jr.Type = JobTypeHTTP /\ jr.Method = ""
                   THEN [jr EXCEPT !.Method = "GET"] ELSE jr
      failed(message) == [jr |-> defaulted, err |-> NewValidationError(message)]
  IN IF jr.Type = "" THEN failed("job type is required")
     ELSE CASE jr.Type = JobTypeCommand ->
                 IF jr.Command = "" THEN failed("command is required for command jobs")
                 ELSE [jr |-> jr, err |-> NilError]
            [] jr.Type = JobTypeScript ->
                 IF jr.Script = "" THEN failed("script is required for script jobs")
                 ELSE [jr |-> jr, err |-> NilError]
            [] jr.Type = JobTypeHTTP ->
                 IF jr.URL = "" THEN failed("url is required for HTTP jobs")
                 ELSE [jr |-> defaulted, err |-> NilError]
            [] jr.Type = JobTypeFile ->
                 IF jr.FilePath = "" THEN failed("file_path is required for file jobs")
                 ELSE [jr |-> jr, err |-> NilError]
            [] OTHER -> failed("unsupported job type: " \o jr.Type)

Validate(jr) ==
  LET failed(message) == [jr |-> jr, err |-> NewValidationError(message)]
  IN IF jr.Type = "" THEN failed("job type is required")
     ELSE CASE jr.Type = JobTypeCommand ->
                 IF jr.Command = "" THEN failed("command is required for command jobs")
                 ELSE [jr |-> jr, err |-> NilError]
            [] jr.Type = JobTypeScript ->
                 IF jr.Script = "" THEN failed("script is required for script jobs")
                 ELSE [jr |-> jr, err |-> NilError]
            [] jr.Type = JobTypeHTTP ->
                 IF jr.URL = "" THEN failed("url is required for HTTP jobs")
                 ELSE [jr |-> IF jr.Method = "" THEN [jr EXCEPT !.Method = "GET"] ELSE jr,
                       err |-> NilError]
            [] jr.Type = JobTypeFile ->
                 IF jr.FilePath = "" THEN failed("file_path is required for file jobs")
                 ELSE [jr |-> jr, err |-> NilError]
            [] OTHER -> failed("unsupported job type: " \o jr.Type)

\* time.ParseDuration over the bytes of the string, durations counted in milliseconds:
\* [-+]?([0-9]+[a-z]+)+, or "0" (fractions and the units below a millisecond are left out)
Millisecond == 1
Second == 1000 * Millisecond
Minute == 60 * Second
Hour == 60 * Minute

IsDigitByte(c) == 48 <= c /\ c <= 57

unitMap(u) ==
  CASE u = <<109, 115>> -> Millisecond
    [] u = <<115>> -> Second
    [] u = <<109>> -> Minute
    [] u = <<104>> -> Hour
    [] OTHER -> 0

RECURSIVE leadingInt(_, _)
leadingInt(s, x) ==
  IF s = <<>> \/ ~IsDigitByte(Head(s)) THEN [x |-> x, rem |-> s]
  ELSE leadingInt(Tail(s), x * 10 + (Head(s) - 48))

RECURSIVE UnitLength(_)
UnitLength(s) ==
  IF s = <<>> \/ IsDigitByte(Head(s)) \/ Head(s) = 46 THEN 0 ELSE 1 + UnitLength(Tail(s))

NoDuration == [ok |-> FALSE, d |-> 0]

RECURSIVE ParseUnits(_, _)
ParseUnits(s, d) ==
  IF s = <<>> THEN [ok |-> TRUE, d |-> d]
  ELSE IF ~IsDigitByte(Head(s)) THEN NoDuration
  ELSE LET v == leadingInt(s, 0)
           i == UnitLength(v.rem)
           u == SubSeq(v.rem, 1, i)
       IN IF i = 0 \/ unitMap(u) = 0 THEN NoDuration
          ELSE ParseUnits(SubSeq(v.rem, i + 1, Len(v.rem)), d + v.x * unitMap(u))

ParseDuration(str) ==
  LET orig == Bytes(str)
      signed == orig # <<>> /\ Head(orig) \in {45, 43}
      neg == orig # <<>> /\ Head(orig) = 45
      s == IF signed THEN Tail(orig) ELSE orig
  IN IF s = <<48>> THEN [ok |-> TRUE, d |-> 0]
     ELSE IF s = <<>> THEN NoDuration
     ELSE LET p == ParseUnits(s, 0)
          IN IF p.ok /\ neg THEN [ok |-> TRUE, d |-> 0 - p.d] ELSE p

\* GenerateJobID: "job-", the seconds of the clock in decimal, "-", four random bytes in hex
RECURSIVE Decimal(_)
Decimal(n) == IF n < 10 THEN <<48 + n>> ELSE Decimal(n \div 10) \o <<48 + (n % 10)>>

HexDigit(d) == IF d < 10 THEN 48 + d ELSE 97 + (d - 10)
EncodeToString(bytes) ==
  IF bytes = <<>> THEN <<>>
  ELSE LET hex(b) == <<HexDigit(b \div 16), HexDigit(b % 16)>>
       IN hex(bytes[1]) \o hex(bytes[2]) \o hex(bytes[3]) \o hex(bytes[4])

JobIDOf(timestamp, randomBytes) ==
  <<106, 111, 98, 45>> \o Decimal(timestamp) \o <<45>> \o EncodeToString(randomBytes)

\* what rand.Read may put into the four bytes (the last byte up to MaxRandom)
RandomBytes == {<<255, 16, 171, b>> : b \in 0..MaxRandom}

\* what ToJob returns and what it leaves in the request
DefaultTimeout == 5 * Minute

ToJobResult_KeepPriority(jr, id, t) ==
  LET v == Validate(jr)
      timeout == IF v.jr.Timeout # "" THEN ParseDuration(v.jr.Timeout)
                 ELSE [ok |-> TRUE, d |-> DefaultTimeout]
  IN IF v.err # NilError THEN [jr |-> v.jr, job |-> NoConverted, err |-> v.err]
     ELSE IF ~timeout.ok
     THEN [jr |-> v.jr, job |-> NoConverted,
           err |-> NewValidationError("invalid timeout format: " \o v.jr.Timeout)]
     ELSE [jr |-> v.jr, err |-> NilError,
           job |-> [ID |-> id, Type |-> v.jr.Type, Command |-> v.jr.Command,
                    Script |-> v.jr.Script, URL |-> v.jr.URL, Method |-> v.jr.Method,
                    FilePath |-> v.jr.FilePath, Retries |-> v.jr.Retries,
                    Priority |-> v.jr.Priority,
                    Tags |-> v.jr.Tags, Environment |-> v.jr.Environment,
                    Status |-> JobStatusPending, CreatedAt |-> t, Timeout |-> timeout.d]]

ToJobResult(jr, id, t) ==
  LET v == Validate(jr)
      timeout == IF v.jr.Timeout # "" THEN ParseDuration(v.jr.Timeout)
                 ELSE [ok |-> TRUE, d |-> DefaultTimeout]
  IN IF v.err # NilError THEN [jr |-> v.jr, job |-> NoConverted, err |-> v.err]
     ELSE IF ~timeout.ok
     THEN [jr |-> v.jr, job |-> NoConverted,
           err |-> NewValidationError("invalid timeout format: " \o v.jr.Timeout)]
     ELSE [jr |-> v.jr, err |-> NilError,
           job |-> [ID |-> id, Type |-> v.jr.Type, Command |-> v.jr.Command,
                    Script |-> v.jr.Script, URL |-> v.jr.URL, Method |-> v.jr.Method,
                    FilePath |-> v.jr.FilePath, Retries |-> v.jr.Retries,
                    Priority |-> IF v.jr.Priority = 0 THEN 1 ELSE v.jr.Priority,
                    Tags |-> v.jr.Tags, Environment |-> v.jr.Environment,
                    Status |-> JobStatusPending, CreatedAt |-> t, Timeout |-> timeout.d]]

\* a caller calls jr.Validate() on the request
CallValidate ==
  LET v == Validate(conv.jr)
  IN /\ conv' = [jr |-> v.jr, op |-> "Validate", before |-> conv.jr, err |-> v.err,
                 job |-> NoConverted]
     /\ last' = Call("Validate", "", NIL, "", IF v.err = NilError THEN NoError ELSE ValidationError, {})
     /\ UNCHANGED <<heap, times, tagArrs, envMaps, held, jobs, now, deleted, assigned,
                    isRunning, isHealthy, currentJobs, execs, stopping, run, gen, goroutines>>
     /\ Called

\* a caller calls jr.ToJob() on the request
CallToJob ==
  \E randomBytes \in RandomBytes :
    LET c == ToJobResult(conv.jr, JobIDOf(now, randomBytes), now)
    IN /\ conv' = [jr |-> c.jr, op |-> "ToJob", before |-> conv.jr, err |-> c.err, job |-> c.job]
       /\ last' = Call("ToJob", "", NIL, "", IF c.err = NilError THEN NoError ELSE ValidationError, {})
       /\ UNCHANGED <<heap, times, tagArrs, envMaps, held, jobs, now, deleted, assigned, calls,
                      isRunning, isHealthy, currentJobs, execs, stopping, run, gen, goroutines>>

\* the requests Validate is called on
RequestTypes == {"", JobTypeCommand, JobTypeScript, JobTypeHTTP, JobTypeFile, "docker"}

ValidateRequests ==
  {[NoRequest EXCEPT !.Type = t, !.Command = c, !.Script = sc, !.URL = u, !.Method = m,
                     !.FilePath = f] :
     t \in RequestTypes, c \in {"", "echo"}, sc \in {"", "exit 0"}, u \in {"", "http://x"},
     m \in {"", "POST"}, f \in {"", "/tmp/f"}}

InitRequest(requests) ==
  /\ heap = [a \in JobAddrs |-> NoJob]
  /\ times = [a \in TimeAddrs |-> NIL]
  /\ tagArrs = [a \in RefAddrs |-> IF a = 1 THEN <<"test">> ELSE <<>>]
  /\ envMaps = [a \in RefAddrs |-> <<>>]
  /\ held = {}
  /\ jobs = [id \in JobIDs |-> NIL]
  /\ now = 1
  /\ last = Call("init", "", NIL, "", NoError, {})
  /\ deleted = {}
  /\ assigned = 0
  /\ calls = 0
  /\ isRunning = [w \in Workers |-> FALSE]
  /\ isHealthy = [w \in Workers |-> TRUE]
  /\ currentJobs = [w \in Workers |-> [id \in JobIDs |-> NIL]]
  /\ execs = [e \in ExecIDs |-> NoExec]
  /\ stopping = [w \in Workers |-> "no"]
  /\ run = NoRun
  /\ gen = NoGen
  /\ goroutines = NoGoroutines
  /\ conv \in {[NoConv EXCEPT !.jr = jr] : jr \in requests}

InitValidate == InitRequest(ValidateRequests)

NextValidate == CallValidate

SpecValidate == InitValidate /\ [][NextValidate]_vars

\* the requests ToJob is called on
TimeoutStrings == {"", "5m", "50ms", "1h30m", "0", "0s", "-1s", "abc", "5"}

ToJobRequests ==
  {[NoRequest EXCEPT !.Type = t, !.Command = p, !.Script = p, !.URL = p, !.Method = m,
                     !.FilePath = p, !.Timeout = d, !.Retries = r, !.Priority = prio,
                     !.Tags = tags, !.Environment = tags] :
     t \in RequestTypes, p \in {"", "echo"}, m \in {"", "POST"}, d \in TimeoutStrings,
     r \in 0..MaxRetries, prio \in (0 - 1)..MaxPriority, tags \in {NIL, 1}}

InitToJob == InitRequest(ToJobRequests)

NextToJob ==
  \/ CallToJob
  \/ Tick

SpecToJob == InitToJob /\ [][NextToJob]_vars

\* GenerateJobID, in the two steps other callers can come between: the clock is read,
\* then the random bytes are read and the ID is put together
GenerateJobIDTime(c) ==
  /\ gen[c].pc # "timed"
  /\ gen' = [gen EXCEPT ![c] = [pc |-> "timed", timestamp |-> now, id |-> <<>>]]
  /\ last' = Call("GenerateJobID.begin", "", NIL, c, NoError, {})
  /\ UNCHANGED <<heap, times, tagArrs, envMaps, held, jobs, now, deleted, assigned,
                 isRunning, isHealthy, currentJobs, execs, stopping, run, conv, goroutines>>
  /\ Called

GenerateJobIDReturn(c) ==
  /\ gen[c].pc = "timed"
  /\ \E randomBytes \in RandomBytes :
       gen' = [gen EXCEPT ![c] = [pc |-> "done", timestamp |-> @.timestamp,
                                  id |-> JobIDOf(@.timestamp, randomBytes)]]
  /\ last' = Call("GenerateJobID", "", NIL, c, NoError, {})
  /\ UNCHANGED <<heap, times, tagArrs, envMaps, held, jobs, now, deleted, assigned, calls,
                 isRunning, isHealthy, currentJobs, execs, stopping, run, conv, goroutines>>

NextGenerate ==
  \/ \E c \in Callers : GenerateJobIDTime(c)
  \/ \E c \in Callers : GenerateJobIDReturn(c)
  \/ Tick

SpecGenerate == InitWorker /\ [][NextGenerate]_vars

(* ---- internal/worker: the locks around the worker's fields ---- *)

\* A method is the sequence of what it does to the shared fields and the two
\* mutexes, in the order it runs (a deferred unlock comes last), callees
\* written out. && is taken with both operands evaluated.

\* the mutex each field of the Worker struct is declared with
GuardedBy(field) == IF field = "currentJobs" THEN "currentJobsMux" ELSE "heartbeatMux"

IsHealthyCode ==
  << <<"RLock", "heartbeatMux">>, <<"read", "isHealthy">>, <<"read", "isRunning">>,
     <<"RUnlock", "heartbeatMux">> >>

GetCurrentLoadCode ==
  << <<"RLock", "currentJobsMux">>, <<"read", "currentJobs">>,
     <<"RUnlock", "currentJobsMux">> >>

CanAcceptJobCode == IsHealthyCode \o GetCurrentLoadCode

UpdateHeartbeatCode ==
  << <<"Lock", "heartbeatMux">>, <<"write", "lastHeartbeat">>,
     <<"Unlock", "heartbeatMux">> >>

GetLastHeartbeatCode ==
  << <<"RLock", "heartbeatMux">>, <<"read", "lastHeartbeat">>,
     <<"RUnlock", "heartbeatMux">> >>

\* Start: the path on which the directory exists; Stop: up to the first tick of
\* its ticker; ExecuteJob: the registration and the deferred removal; the two
\* loops: one round of the ticker, on which the worker is found running
Code(op) ==
  CASE op = "Start" ->
         << <<"write", "isRunning">>, <<"go", "heartbeatLoop">>, <<"go", "jobPollingLoop">> >>
    [] op = "Stop" -> << <<"write", "isRunning">> >> \o GetCurrentLoadCode
    [] op = "IsHealthy" -> IsHealthyCode
    [] op = "SetHealthy" ->
         << <<"Lock", "heartbeatMux">>, <<"write", "isHealthy">>,
            <<"Unlock", "heartbeatMux">> >>
    [] op = "ExecuteJob" ->
         CanAcceptJobCode \o
         << <<"Lock", "currentJobsMux">>, <<"write", "currentJobs">>,
            <<"Unlock", "currentJobsMux">>,
            <<"Lock", "currentJobsMux">>, <<"write", "currentJobs">>,
            <<"Unlock", "currentJobsMux">> >>
    [] op = "GetInfo" ->
         IsHealthyCode \o GetCurrentLoadCode \o CanAcceptJobCode \o GetLastHeartbeatCode
           \o << <<"read", "currentJobs">> >>
    [] op = "heartbeatLoop" -> << <<"read", "isRunning">> >> \o UpdateHeartbeatCode
    [] op = "jobPollingLoop" ->
         << <<"read", "isRunning">> >> \o CanAcceptJobCode \o GetCurrentLoadCode
    [] OTHER -> <<>>

\* the instruction goroutine g is at, <<"", "">> when it is in no method
Instr(g) ==
  LET c == Code(goroutines[g].op)
  IN IF goroutines[g].pc \in 1..Len(c) THEN c[goroutines[g].pc] ELSE <<"", "">>

\* how often g has run instruction kind on mutex m in the method it is in
Count(g, kind, m) ==
  Cardinality({i \in 1..(goroutines[g].pc - 1) :
                 Code(goroutines[g].op)[i] = <<kind, m>>})

\* sync.RWMutex: g holds m for writing (Lock without Unlock), for reading
HoldsLock(g, m) == Count(g, "Lock", m) > Count(g, "Unlock", m)
HoldsRLock(g, m) == Count(g, "RLock", m) > Count(g, "RUnlock", m)

\* g is past its instruction: the next one, or the end of the method (a loop
\* goes back to wait for its ticker)
Advance(g) ==
  IF goroutines[g].pc < Len(Code(goroutines[g].op))
  THEN [goroutines[g] EXCEPT !.pc = @ + 1, !.inside = FALSE]
  ELSE IF g > MaxGoroutines THEN [goroutines[g] EXCEPT !.pc = 0, !.inside = FALSE]
       ELSE NoGoroutine

Methods == {"Start", "Stop", "IsHealthy", "SetHealthy", "ExecuteJob", "GetInfo"}

\* a goroutine calls a method of the worker
Invoke(g, op) ==
  /\ g \in 1..MaxGoroutines
  /\ goroutines[g].op = ""
  /\ goroutines' = [goroutines EXCEPT ![g] = [op |-> op, pc |-> 1, inside |-> FALSE]]
  /\ UNCHANGED <<heap, times, tagArrs, envMaps, held, jobs, now, last, deleted, assigned,
                 calls, isRunning, isHealthy, currentJobs, execs, stopping, run, conv, gen>>

\* case <-ticker.C of a launched loop
LoopTick(g) ==
  /\ g > MaxGoroutines
  /\ goroutines[g].op # "" /\ goroutines[g].pc = 0
  /\ goroutines' = [goroutines EXCEPT ![g].pc = 1]
  /\ UNCHANGED <<heap, times, tagArrs, envMaps, held, jobs, now, last, deleted, assigned,
                 calls, isRunning, isHealthy, currentJobs, execs, stopping, run, conv, gen>>

\* Lock waits until nobody holds the mutex, RLock until nobody holds it for writing
Acquire(g) ==
  /\ Instr(g)[1] \in {"Lock", "RLock"}
  /\ \A h \in Goroutines \ {g} :
       /\ ~HoldsLock(h, Instr(g)[2])
       /\ Instr(g)[1] = "Lock" => ~HoldsRLock(h, Instr(g)[2])
  /\ goroutines' = [goroutines EXCEPT ![g] = Advance(g)]
  /\ UNCHANGED <<heap, times, tagArrs, envMaps, held, jobs, now, last, deleted, assigned,
                 calls, isRunning, isHealthy, currentJobs, execs, stopping, run, conv, gen>>

\* Unlock, RUnlock
Unlock(g) ==
  /\ Instr(g)[1] \in {"Unlock", "RUnlock"}
  /\ goroutines' = [goroutines EXCEPT ![g] = Advance(g)]
  /\ UNCHANGED <<heap, times, tagArrs, envMaps, held, jobs, now, last, deleted, assigned,
                 calls, isRunning, isHealthy, currentJobs, execs, stopping, run, conv, gen>>

\* a read or a write of a field begins: nothing but the locks keeps another
\* goroutine from touching the field until it has ended
AccessBegin(g) ==
  /\ Instr(g)[1] \in {"read", "write"}
  /\ ~goroutines[g].inside
  /\ goroutines' = [goroutines EXCEPT ![g].inside = TRUE]
  /\ UNCHANGED <<heap, times, tagArrs, envMaps, held, jobs, now, last, deleted, assigned,
                 calls, isRunning, isHealthy, currentJobs, execs, stopping, run, conv, gen>>

AccessEnd(g) ==
  /\ goroutines[g].inside
  /\ goroutines' = [goroutines EXCEPT ![g] = Advance(g)]
  /\ UNCHANGED <<heap, times, tagArrs, envMaps, held, jobs, now, last, deleted, assigned,
                 calls, isRunning, isHealthy, currentJobs, execs, stopping, run, conv, gen>>

\* go w.heartbeatLoop(ctx), go w.jobPollingLoop(ctx): the loop waits for its
\* ticker (one goroutine per loop: a second Start finds it launched)
Launch(g) ==
  /\ Instr(g)[1] = "go"
  /\ LET loop == Instr(g)[2]
         l == LoopGoroutine(loop)
     IN goroutines' = [goroutines EXCEPT
                         ![g] = Advance(g),
                         ![l] = IF @.op = "" THEN [op |-> loop, pc |-> 0, inside |-> FALSE]
                                ELSE @]
  /\ UNCHANGED <<heap, times, tagArrs, envMaps, held, jobs, now, last, deleted, assigned,
                 calls, isRunning, isHealthy, currentJobs, execs, stopping, run, conv, gen>>

NextLocks ==
  \/ \E g \in Goroutines, op \in Methods : Invoke(g, op)
  \/ \E g \in Goroutines : LoopTick(g)
  \/ \E g \in Goroutines : Acquire(g)
  \/ \E g \in Goroutines : Unlock(g)
  \/ \E g \in Goroutines : AccessBegin(g)
  \/ \E g \in Goroutines : AccessEnd(g)
  \/ \E g \in Goroutines : Launch(g)

SpecLocks == InitWorker /\ [][NextLocks]_vars

(* ======================= claims ======================= *)

\* the transition table of the specification, as a set of edges
TransitionTable ==
  {<<"pending", "queued">>, <<"pending", "cancelled">>,
   <<"queued", "running">>, <<"queued", "cancelled">>,
   <<"running", "completed">>, <<"running", "failed">>,
   <<"running", "cancelled">>, <<"running", "retrying">>,
   <<"retrying", "queued">>, <<"retrying", "failed">>, <<"retrying", "cancelled">>}

JobCalled == last'.op = "Job.UpdateStatus"

\* C1: Job.UpdateStatus(new) succeeds exactly on the edges of the transition
\* table and returns a validation error for every other pair of statuses; a
\* job in a terminal status keeps that status whatever is called on it.
C1_TransitionTable ==
  [][JobCalled =>
       /\ (last'.err = NoError) <=> (<<heap[last'.addr].Status, last'.arg>> \in TransitionTable)
       /\ last'.err \in {NoError, ValidationError}
       /\ last'.err = NoError => heap'[last'.addr].Status = last'.arg
       /\ heap[last'.addr].Status \in {"completed", "failed", "cancelled"}
            => heap'[last'.addr].Status = heap[last'.addr].Status]_vars

\* a call from a terminal status was made and rejected
C1_Witness ==
  /\ last.op = "Job.UpdateStatus"
  /\ last.err = ValidationError
  /\ heap[last.addr].Status = "completed"
  /\ last.arg = "running"

\* C2: a rejected Job.UpdateStatus leaves Status, StartedAt and CompletedAt
\* (the pointers and the times they point to) as they were before the call.
C2_RejectedNoMutation ==
  [][(JobCalled /\ last'.err # NoError) =>
       /\ heap'[last'.addr] = heap[last'.addr]
       /\ times' = times]_vars

\* running -> running was attempted on a started job and rejected
C2_Witness ==
  /\ last.op = "Job.UpdateStatus"
  /\ last.err = ValidationError
  /\ last.arg = "running"
  /\ heap[last.addr].Status = "running"
  /\ StartedAtOf(last.addr) # NIL
  /\ StartedAtOf(last.addr) < now

\* C3: StartedAt is assigned (the clock's reading) at the first successful
\* entry into running and never changes afterwards, CompletedAt likewise at the
\* first entry into a terminal status.
C3_TimestampsSetOnce ==
  [][\A a \in JobAddrs : heap[a] # NoJob =>
       /\ heap[a].StartedAt # NIL =>
            /\ heap'[a].StartedAt = heap[a].StartedAt
            /\ StartedAtOf(a)' = StartedAtOf(a)
       /\ heap[a].CompletedAt # NIL =>
            /\ heap'[a].CompletedAt = heap[a].CompletedAt
            /\ CompletedAtOf(a)' = CompletedAtOf(a)
       /\ heap[a].StartedAt = NIL =>
            IF heap'[a].Status = "running" /\ heap[a].Status # "running"
            THEN StartedAtOf(a)' = now
            ELSE heap'[a].StartedAt = NIL
       /\ heap[a].CompletedAt = NIL =>
            IF IsTerminal(heap'[a].Status) /\ ~IsTerminal(heap[a].Status)
            THEN CompletedAtOf(a)' = now
            ELSE heap'[a].CompletedAt = NIL]_vars

\* the job re-entered running, later than its first start
C3_Witness ==
  /\ last.op = "Job.UpdateStatus"
  /\ last.err = NoError
  /\ last.arg = "running"
  /\ StartedAtOf(last.addr) # NIL
  /\ StartedAtOf(last.addr) < now

(* ---- what the store shows ---- *)

\* a Job struct as its reader sees it: pointers, slice and map followed
Shown(j) ==
  [j EXCEPT !.StartedAt = Deref(j.StartedAt),
            !.CompletedAt = Deref(j.CompletedAt),
            !.Tags = IF j.Tags = NIL THEN <<>> ELSE tagArrs[j.Tags],
            !.Environment = IF j.Environment = NIL THEN <<>> ELSE envMaps[j.Environment]]

\* what Get(id) would return now (NoJob: job not found)
GetView(id) == IF jobs[id] = NIL THEN NoJob ELSE Shown(heap[jobs[id]])
StoredStatus(id) == IF jobs[id] = NIL THEN "" ELSE heap[jobs[id]].Status
StoredCreatedAt(id) == IF jobs[id] = NIL THEN NIL ELSE heap[jobs[id]].CreatedAt
StoreUnchanged == jobs' = jobs /\ \A id \in JobIDs : GetView(id)' = GetView(id)

\* C4: while a job stays in the store its status changes only along an edge
\* of the transition table, whatever Create, Update, UpdateStatus and Delete do.
C4_StoredStatusAlongEdges ==
  [][\A id \in JobIDs : (jobs[id] # NIL /\ jobs'[id] # NIL) =>
       \/ StoredStatus(id)' = StoredStatus(id)
       \/ <<StoredStatus(id), StoredStatus(id)'>> \in TransitionTable]_vars

\* C5: while a job stays in the store its CreatedAt does not change.
C5_StoredCreatedAtFixed ==
  [][\A id \in JobIDs : (jobs[id] # NIL /\ jobs'[id] # NIL) =>
       StoredCreatedAt(id)' = StoredCreatedAt(id)]_vars

\* C6: an assignment by a caller to Status, WorkerID, Priority, Output, Error
\* or ExitCode of a job it passed to Create/Update or got from Get/List does
\* not change what Get returns for any ID.
C6_ScalarIsolation ==
  [][(last'.op = "assign" /\ last'.arg \in ScalarFields) => StoreUnchanged]_vars

\* a caller assigned to a field of a job that Get or List returned (only such
\* a job is cancelled here: callers build pending jobs and assign pending or
\* completed), and the stored job still shows the old value
C6_Witness ==
  /\ last.op = "assign"
  /\ last.arg # "Status"
  /\ heap[last.addr].Status = "cancelled"
  /\ jobs[last.id] # NIL
  /\ jobs[last.id] # last.addr
  /\ heap[jobs[last.id]][last.arg] # heap[last.addr][last.arg]

\* C7: a caller writing an element of Tags, an entry of Environment or the
\* time StartedAt/CompletedAt points to, through a job it passed in or got
\* back, does not change what Get returns for any ID.
C7_ReferenceIsolation ==
  [][(last'.op \in {"settag", "setenv", "settime"}) => StoreUnchanged]_vars

\* C8: Create with a present ID returns an error and leaves every stored job
\* as it was; Create with an absent ID succeeds, Get then returns the job that
\* was passed, and every other stored job is as it was.
C8_CreateContract ==
  [][\A created \in JobIDs : (last'.op = "Create" /\ last'.id = created) =>
       IF jobs[created] # NIL
       THEN last'.err = ValidationError /\ StoreUnchanged
       ELSE /\ last'.err = NoError
            /\ jobs'[created] # NIL
            /\ GetView(created)' = Shown(heap[last'.addr])
            /\ \A id \in JobIDs \ {created} :
                 jobs'[id] = jobs[id] /\ GetView(id)' = GetView(id)]_vars

\* a job was created, deleted and created again, and a further Create of the
\* same ID was rejected
C8_Witness ==
  /\ last.op = "Create"
  /\ last.err = ValidationError
  /\ last.id \in deleted
  /\ jobs[last.id] # NIL

\* C9: Get, Update, Delete and UpdateStatus on an absent ID return a
\* job-not-found error and leave the store as it was (Update does not insert).
C9_NotFoundContract ==
  [][(/\ last'.op \in {"Get", "Update", "Delete", "Store.UpdateStatus"}
      /\ jobs[last'.id] = NIL) =>
       /\ last'.err = JobNotFoundError
       /\ StoreUnchanged]_vars

\* Update of an absent ID was rejected while another job is stored
C9_Witness ==
  /\ last.op = "Update"
  /\ last.err = JobNotFoundError
  /\ jobs[last.id] = NIL
  /\ \E id \in JobIDs : jobs[id] # NIL

\* C10: Store.UpdateStatus(id, s) on a present ID succeeds exactly on the
\* edges of the transition table; on success Get shows status s, StartedAt
\* stamped on the first entry into running, CompletedAt on the first entry
\* into a terminal status and nothing else changed; on rejection it returns
\* the validation error and Get shows the job unchanged.
C10_StoreUpdateStatusDelegates ==
  [][\A id \in JobIDs :
       (last'.op = "Store.UpdateStatus" /\ last'.id = id /\ jobs[id] # NIL) =>
         LET before == GetView(id)
             s == last'.arg
             stampStart == s = "running" /\ before.StartedAt = NIL
             stampDone == s \in {"completed", "failed", "cancelled"} /\ before.CompletedAt = NIL
         IN IF <<before.Status, s>> \in TransitionTable
            THEN /\ last'.err = NoError
                 /\ jobs' = jobs
                 /\ GetView(id)' =
                      [before EXCEPT !.Status = s,
                                     !.StartedAt = IF stampStart THEN now ELSE @,
                                     !.CompletedAt = IF stampDone THEN now ELSE @]
                 /\ \A other \in JobIDs \ {id} : GetView(other)' = GetView(other)
            ELSE /\ last'.err = ValidationError
                 /\ StoreUnchanged]_vars

\* the store moved a job it holds to running and stamped StartedAt, after the
\* clock had advanced past the job's creation
C10_Witness ==
  /\ last.op = "Store.UpdateStatus"
  /\ last.err = NoError
  /\ last.arg = "running"
  /\ jobs[last.id] # NIL
  /\ GetView(last.id).StartedAt = now
  /\ GetView(last.id).CreatedAt < now

StoredIDs == {id \in JobIDs : jobs[id] # NIL}
StoreCells == {jobs[id] : id \in StoredIDs}
\* the stored jobs that pass every filter of the list fs
Satisfying(fs) ==
  {id \in StoredIDs : \A k \in 1..Len(fs) : matchesFilter(heap[jobs[id]], fs[k])}

\* C11: List returns, without error, exactly one copy of each stored job that
\* satisfies every supplied filter and of no other job; with no filters it
\* returns every stored job. A copy is a struct of its own, equal to the
\* stored one.
C11_ListConjunction ==
  [][last'.op = "List" =>
       /\ last'.err = NoError
       /\ \A id \in JobIDs :
            Cardinality({c \in last'.res : heap'[c].ID = id}) =
              IF id \in Satisfying(last'.arg) THEN 1 ELSE 0
       /\ \A c \in last'.res :
            /\ c \notin StoreCells
            /\ heap[c] = NoJob
            /\ heap'[c] = heap[jobs[heap'[c].ID]]
       /\ last'.arg = <<>> => Cardinality(last'.res) = Cardinality(StoredIDs)
       /\ jobs' = jobs /\ \A a \in StoreCells : heap'[a] = heap[a]]_vars

\* a query of two filters returned a job although another stored job passes
\* its first filter and fails its second
C11_Witness ==
  /\ last.op = "List"
  /\ Len(last.arg) = 2
  /\ last.res # {}
  /\ \E id \in StoredIDs :
       /\ matchesFilter(heap[jobs[id]], last.arg[1])
       /\ ~matchesFilter(heap[jobs[id]], last.arg[2])

\* the allow-list of filter fields and the operators of the filter language
FieldAllowList ==
  {"id", "type", "status", "worker_id", "priority", "created_at", "started_at", "completed_at"}
OperatorList == {"eq", "ne", "gt", "lt", "gte", "lte", "in", "contains"}

\* C12: a query holding a filter whose Field is not on the allow-list returns
\* no job, whatever the operator (ne included) and the value; so does one
\* holding a filter whose Operator is not one of the eight; neither is an
\* error.
C12_UnknownFailsClosed ==
  [][(/\ last'.op = "List"
      /\ \E k \in 1..Len(last'.arg) :
           \/ last'.arg[k].Field \notin FieldAllowList
           \/ last'.arg[k].Operator \notin OperatorList)
       => (last'.res = {} /\ last'.err = NoError /\ heap' = heap)]_vars

\* a populated store answered nothing to "name ne pending", then everything
\* to the empty query
C12_Witness ==
  /\ last.op = "List"
  /\ last.arg = <<Filter("name", "ne", StringValue("pending"))>>
  /\ last.res = {}
  /\ StoredIDs # {}

\* operands gt/lt/gte/lte can order: both int, both string or both timestamp
Comparable(a, b) == a.t = b.t /\ a.t \in {"int", "string", "time.Time"}

\* C13: gt, lt, gte and lte evaluate to false whenever the field value and
\* the filter value are not comparably typed (an unset started_at or
\* completed_at included): a query made of one such filter returns no job
\* whose field is not comparable with the filter's value.
C13_OrderingNeedsComparable ==
  [][(/\ last'.op = "List"
      /\ Len(last'.arg) = 1
      /\ last'.arg[1].Operator \in {"gt", "lt", "gte", "lte"}
      /\ last'.arg[1].Field \in FieldAllowList)
       => \A c \in last'.res :
            Comparable(FieldValue(heap'[c], last'.arg[1].Field), last'.arg[1].Value)]_vars

\* sub occurs in str as a contiguous run of bytes, letters A-Z and a-z alike
Lower(b) == IF b \in 65..90 THEN b + 32 ELSE b
Occurs(str, sub) ==
  \E i \in 0..(Len(str) - Len(sub)) : \A k \in 1..Len(sub) : Lower(str[i + k]) = Lower(sub[k])

\* C14: contains matches exactly when the field is a string and the filter
\* value is a string occurring in it, case-insensitively, as a contiguous
\* substring, for every value, the empty string included; it never matches a
\* non-string field.
C14_ContainsIsSubstring ==
  [][(/\ last'.op = "List"
      /\ Len(last'.arg) = 1
      /\ last'.arg[1].Operator = "contains"
      /\ last'.arg[1].Field \in FieldAllowList)
       => \A id \in StoredIDs :
            LET fieldValue == FieldValue(heap[jobs[id]], last'.arg[1].Field)
                value == last'.arg[1].Value
            IN (\E c \in last'.res : heap'[c].ID = id) <=>
                 /\ fieldValue.t = "string"
                 /\ value.t = "string"
                 /\ Occurs(Bytes(fieldValue.v), Bytes(value.v))]_vars

\* the job IDs in a worker's in-flight set
InFlight(w) == {id \in JobIDs : currentJobs[w][id] # NIL}
\* health flag, running flag and room below the configured capacity
HasRoom(w) == isHealthy[w] /\ isRunning[w] /\ Cardinality(InFlight(w)) < MaxConcurrentJobs

\* C15: in every state of a worker CanAcceptJob() is true exactly when the
\* health flag is set, the running flag is set and the number of in-flight
\* jobs is below the configured capacity, and that is what a caller asking
\* is told: a worker never started or marked unhealthy accepts nothing, a
\* healthy running worker with as many jobs in flight as its capacity
\* reports false, and true again once one of them has finished.
C15_CanAcceptJob ==
  \A w \in Workers :
    /\ CanAcceptJob(w) <=> HasRoom(w)
    /\ (last.op = "CanAcceptJob" /\ last.arg = w) => (last.res <=> HasRoom(w))
    /\ (~isRunning[w] \/ ~isHealthy[w]) => ~CanAcceptJob(w)

\* a healthy, running worker executing as many jobs as its capacity was asked
\* and said no
C15_Witness ==
  /\ last.op = "CanAcceptJob"
  /\ last.res = FALSE
  /\ isHealthy[last.arg] /\ isRunning[last.arg]
  /\ Cardinality(InFlight(last.arg)) = MaxConcurrentJobs
  /\ \E e \in ExecIDs : execs[e].pc = "executing" /\ execs[e].w = last.arg

\* the ExecuteJob calls on w that are inside the executor
Executing(w) == {e \in ExecIDs : execs[e].w = w /\ execs[e].pc = "executing"}

\* C16: under any interleaving of concurrent ExecuteJob calls on one worker,
\* the number of jobs registered in its in-flight set, and the number of jobs
\* it is executing at the same time, never exceed its configured capacity.
C16_CapacityNeverExceeded ==
  \A w \in Workers :
    /\ Cardinality(InFlight(w)) <= MaxConcurrentJobs
    /\ Cardinality(Executing(w)) <= MaxConcurrentJobs

\* the ExecuteJob calls that are executing the job id
ExecutingJob(id) == {e \in ExecIDs : execs[e].pc = "executing" /\ heap[execs[e].j].ID = id}

\* C17: while a job is in status running its WorkerID is that of the single
\* worker whose ExecuteJob moved it to running, and stays so until the job
\* leaves running: no other ExecuteJob call, on the same or another worker,
\* on the same record or on another copy of the same job ID, sets WorkerID
\* or starts a second execution of the job.
C17_SingleRunner ==
  [][/\ \A a \in JobAddrs :
          (heap[a] # NoJob /\ heap[a].Status = JobStatusRunning
             /\ heap'[a].Status = JobStatusRunning)
            => heap'[a].WorkerID = heap[a].WorkerID
     /\ \A id \in JobIDs : Cardinality(ExecutingJob(id)') <= 1]_vars

\* the call e took a step
Stepped(e) == execs'[e] # execs[e]
\* the call e has just returned the cannot-accept error
Refused(e) == Stepped(e) /\ execs'[e].pc = "done" /\ execs'[e].err = CannotAcceptError

\* C18: an ExecuteJob call that finds CanAcceptJob() false (worker at
\* capacity, unhealthy or not running) returns an error without queuing: it
\* leaves the job's Status and WorkerID and the in-flight set as they are and
\* does not invoke the executor.
C18_RefusedUntouched ==
  [][\A e \in ExecIDs :
       \* the check: health and running flags first, then the load
       /\ (Stepped(e) /\ execs[e].pc = "idle" /\ ~(isHealthy[execs'[e].w] /\ isRunning[execs'[e].w]))
            => Refused(e)
       /\ (Stepped(e) /\ execs[e].pc = "load"
             /\ Cardinality(InFlight(execs[e].w)) >= MaxConcurrentJobs)
            => Refused(e)
       \* nothing is touched up to and including the refusal
       /\ (Stepped(e) /\ execs[e].pc \in {"idle", "load"})
            => heap' = heap /\ currentJobs' = currentJobs /\ times' = times
       /\ Refused(e)
            => /\ ~execs'[e].registered /\ ~execs'[e].invoked /\ execs'[e].result = ""
               /\ last'.op = "ExecuteJob" /\ last'.err = CannotAcceptError
               /\ execs[e].pc \in {"idle", "load"}]_vars

\* a healthy, running worker busy with one job refused another
C18_Witness ==
  /\ last.op = "ExecuteJob"
  /\ last.err = CannotAcceptError
  /\ \E e \in ExecIDs :
       /\ last.arg = e
       /\ isHealthy[execs[e].w] /\ isRunning[execs[e].w]
       /\ heap[execs[e].j].Status = JobStatusQueued
       /\ heap[execs[e].j].WorkerID = ""
       /\ \E d \in ExecIDs : d # e /\ execs[d].pc = "executing" /\ execs[d].w = execs[e].w

\* the accepted call e has just returned
Left(e) == Stepped(e) /\ execs'[e].pc = "done" /\ execs[e].registered
AllReturned == \A e \in ExecIDs : execs[e].pc \in {"idle", "done"}

\* C19: on every exit path of an accepted ExecuteJob call (transition to
\* running rejected, executor error, executor result) the job's ID is absent
\* from the worker's in-flight set when the call returns, and the caller gets
\* what the executor returned, its error included; so once all ExecuteJob
\* calls on a worker have returned its load is 0.
C19_AlwaysDeregistered ==
  [][/\ \A e \in ExecIDs :
          Left(e) =>
            /\ currentJobs'[execs[e].w][heap[execs[e].j].ID] = NIL
            /\ last'.op = "ExecuteJob" /\ last'.arg = e
            /\ last'.err = execs[e].err /\ last'.res = execs[e].result
            /\ ~execs[e].invoked <=> last'.err = StatusUpdateError
            /\ execs[e].invoked => <<last'.res, last'.err>> \in
                 {<<JobStatusCompleted, NoError>>, <<JobStatusFailed, NoError>>,
                  <<"", ExecuteError>>}
     /\ AllReturned' => \A w \in Workers : InFlight(w)' = {}]_vars

\* both calls were accepted and have returned, one with the executor's error
\* and one because its job was running already; nothing is in flight
C19_Witness ==
  /\ last.op = "ExecuteJob"
  /\ \E e \in ExecIDs, d \in ExecIDs :
       /\ execs[e].pc = "done" /\ execs[e].registered /\ execs[e].err = ExecuteError
       /\ execs[d].pc = "done" /\ execs[d].registered /\ execs[d].err = StatusUpdateError
  /\ \A w \in Workers : InFlight(w) = {}

\* the accepted call e has just made UpdateStatus check the transition
Checked(e) == Stepped(e) /\ execs[e].pc = "transition"

\* C20: an accepted ExecuteJob call invokes the executor only if the job's
\* transition to running is valid, that is only if the job is queued when
\* the call asks for the transition; for a job that is pending, running,
\* retrying, completed, failed or cancelled the call returns an error and
\* never invokes the executor.
C20_ExecutesOnlyQueued ==
  [][\A e \in ExecIDs :
       /\ (Checked(e) /\ heap[execs[e].j].Status = JobStatusQueued)
            => execs'[e].pc = "write" /\ execs'[e].err = NoError
       /\ (Checked(e) /\ heap[execs[e].j].Status # JobStatusQueued)
            => /\ execs'[e].pc = "cleanup" /\ execs'[e].err = StatusUpdateError
               /\ heap'[execs[e].j].Status = heap[execs[e].j].Status
       /\ (Stepped(e) /\ execs'[e].invoked /\ ~execs[e].invoked) => execs[e].pc = "write"
       /\ (Stepped(e) /\ execs[e].err = StatusUpdateError)
            => /\ ~execs'[e].invoked
               /\ execs'[e].pc = "done"
               /\ last'.op = "ExecuteJob" /\ last'.err = StatusUpdateError /\ last'.res = ""]_vars

\* a call on a job that was not queued came back with the error, and the
\* executor was not invoked for it
C20_Witness ==
  /\ last.op = "ExecuteJob"
  /\ last.err = StatusUpdateError
  /\ \E e \in ExecIDs :
       /\ last.arg = e
       /\ execs[e].registered /\ ~execs[e].invoked
       /\ heap[execs[e].j].Status = JobStatusRetrying

\* the call e has just been made
Begun(e) == Stepped(e) /\ execs[e].pc = "idle"

\* C21: once Stop has marked the worker not-running, CanAcceptJob() is false
\* and every ExecuteJob call that begins from then on fails without
\* registering or executing the job, until Start is called again.
C21_StoppedAcceptsNothing ==
  [][\A w \in Workers :
       \* Stop clears the flag, and only Start sets it again
       /\ (last'.op = "Stop.begin" /\ last'.arg = w) => ~isRunning'[w]
       /\ (~isRunning[w] /\ isRunning'[w]) => (last'.op = "Start" /\ last'.arg = w)
       \* while it is cleared nothing is accepted
       /\ ~isRunning'[w] => ~CanAcceptJob(w)'
       /\ \A e \in ExecIDs :
            (Begun(e) /\ execs'[e].w = w /\ ~isRunning[w])
              => /\ Refused(e)
                 /\ ~execs'[e].registered /\ ~execs'[e].invoked
                 /\ heap' = heap /\ currentJobs' = currentJobs
                 /\ last'.op = "ExecuteJob" /\ last'.err = CannotAcceptError]_vars

\* a worker that ran a job was stopped, and a call made after that was
\* refused while the earlier job was still in flight
C21_Witness ==
  /\ last.op = "ExecuteJob"
  /\ last.err = CannotAcceptError
  /\ \E e \in ExecIDs :
       /\ last.arg = e
       /\ ~isRunning[execs[e].w] /\ isHealthy[execs[e].w]
       /\ stopping[execs[e].w] # "no"
       /\ \E d \in ExecIDs : d # e /\ execs[d].pc = "executing" /\ execs[d].w = execs[e].w

\* C22: Stop ends in exactly one of three outcomes (graceful drain, the grace
\* period over with jobs in flight, the caller's context cancelled) and
\* returns a different value for each: of two Stop calls that return one
\* after the other with different outcomes, the returned values differ.
C22_StopOutcomesDistinct ==
  [][(last.op = "Stop" /\ last'.op = "Stop")
       => /\ last'.res \in {"graceful", "timeout", "cancelled"}
          /\ last.res # last'.res => last.err # last'.err]_vars

\* Execute returns from the strategy it was blocked in
ExecuteReturns == run.pc = "blocked" /\ run'.pc = "done"

\* C23: for a job of a supported type Execute returns a result and a nil error; the
\* result is completed with exit code 0 exactly when the strategy reported no error,
\* and otherwise failed with the strategy's error text and a nonzero exit code (1 when
\* the strategy reported 0 with its error)
C23_ResultMatchesStrategy ==
  [][ExecuteReturns =>
       LET r == run'.result
           o == run'.outcome
       IN /\ r # NoResult /\ run'.err = NilError
          /\ o.err = NilError <=> (r.Status = JobStatusCompleted /\ r.ExitCode = 0)
          /\ o.err # NilError =>
               /\ r.Status = JobStatusFailed /\ r.Error = o.err.text /\ r.ExitCode # 0
               /\ o.exitCode = 0 => r.ExitCode = 1
          /\ ~(r.Status = JobStatusFailed /\ r.ExitCode = 0)
          /\ ~(r.Status = JobStatusCompleted /\ r.ExitCode # 0)]_vars

\* an HTTP job got a 404: the result is failed with exit code 1
C23_Witness ==
  /\ run.pc = "done" /\ run.j.Type = JobTypeHTTP
  /\ run.outcome.output = "Status: 404"
  /\ run.result.Status = JobStatusFailed /\ run.result.ExitCode = 1
  /\ run.result.Error = "HTTP request returned status 404"

\* C24: Execute returns an error and no result exactly for the job types CanExecute
\* rejects, which are all but command, script, http and file; for those four the
\* error is nil and a failure of the strategy is in the result
C24_HardErrorIffUnsupported ==
  [][(run.pc # "done" /\ run'.pc = "done") =>
       /\ CanExecute(run'.j.Type)
            <=> run'.j.Type \in {JobTypeCommand, JobTypeScript, JobTypeHTTP, JobTypeFile}
       /\ ~CanExecute(run'.j.Type) <=> (run'.err # NilError /\ run'.result = NoResult)
       /\ CanExecute(run'.j.Type) =>
            /\ run'.err = NilError /\ run'.result # NoResult
            /\ run'.outcome.err # NilError => run'.result.Status = JobStatusFailed]_vars


\* a job of an unknown type gets the hard error
C24_Witness ==
  run.pc = "done" /\ run.j.Type = "docker" /\ run.err = Errorf(ExecuteError) /\ run.result = NoResult

\* C25: when the scope Execute derived is done while the strategy is blocked, by the
\* job's timeout or by the caller's cancellation, the result Execute returns is failed
C25_CancelledRunFails ==
  [][(ExecuteReturns /\ ScopeDone(run)) => run'.result.Status = JobStatusFailed]_vars

\* the job's timeout has elapsed while its strategy was blocked
TimedOut(r) == r.j.Timeout > 0 /\ r.elapsed >= r.j.Timeout

\* C26: when the execution exceeded the job's timeout, what Execute returns is a
\* TimeoutError
C26_TimeoutIsTimeoutError ==
  [][(ExecuteReturns /\ TimedOut(run)) => IsTimeoutError(run'.err)]_vars

\* the request has one of the four types and the field its type requires
RequestValid(jr) ==
  \/ jr.Type = "command" /\ jr.Command # ""
  \/ jr.Type = "script" /\ jr.Script # ""
  \/ jr.Type = "http" /\ jr.URL # ""
  \/ jr.Type = "file" /\ jr.FilePath # ""

\* the durations the well-formed timeout strings stand for, in milliseconds
WellFormed == {"5m", "50ms", "1h30m", "0", "0s", "-1s"}
DurationOf(str) ==
  CASE str = "5m" -> 300000
    [] str = "50ms" -> 50
    [] str = "1h30m" -> 5400000
    [] str = "0" -> 0
    [] str = "0s" -> 0
    [] str = "-1s" -> 0 - 1000

\* C27: for a request that passes Validate and has an empty or well-formed Timeout,
\* ToJob returns a pending job with a non-empty ID, the request's type, payload,
\* Retries and Tags, the parsed Timeout or 5 minutes for an empty one, and the
\* request's Priority with 0 replaced by 1; for a request that fails Validate it
\* returns Validate's error and no job; for a malformed Timeout a validation error
\* and no job
C27_ToJobConverts ==
  [][last'.op = "ToJob" =>
       LET jr == conv.jr
           job == conv'.job
           err == conv'.err
       IN /\ conv'.op = "ToJob"
          /\ ~RequestValid(jr) =>
               job = NoConverted /\ err = Validate(jr).err /\ err.type = "ValidationError"
          /\ (RequestValid(jr) /\ jr.Timeout \notin WellFormed \cup {""}) =>
               job = NoConverted /\ err.type = "ValidationError"
          /\ (RequestValid(jr) /\ jr.Timeout \in WellFormed \cup {""}) =>
               /\ err = NilError /\ job # NoConverted
               /\ job.Status = "pending" /\ Len(job.ID) > 0
               /\ job.Type = jr.Type /\ job.Command = jr.Command /\ job.Script = jr.Script
               /\ job.URL = jr.URL /\ job.FilePath = jr.FilePath
               /\ job.Method = conv'.jr.Method
               /\ job.Retries = jr.Retries /\ job.Tags = jr.Tags
               /\ job.Timeout = IF jr.Timeout = "" THEN 300000 ELSE DurationOf(jr.Timeout)
               /\ job.Priority = IF jr.Priority = 0 THEN 1 ELSE jr.Priority]_vars

\* an http request without method, timeout and priority was converted
C27_Witness ==
  /\ conv.op = "ToJob" /\ conv.before.Type = "http" /\ conv.before.Method = ""
  /\ conv.before.Timeout = "" /\ conv.before.Priority = 0 /\ conv.before.Tags # NIL
  /\ conv.err = NilError
  /\ conv.job.Timeout = 300000 /\ conv.job.Priority = 1 /\ conv.job.Method = "GET"

\* C28: every job ToJob returns has a Timeout greater than zero, whatever timeout
\* string the request had
C28_TimeoutPositive ==
  (conv.op = "ToJob" /\ conv.err = NilError) => conv.job.Timeout > 0

\* Validate's outcome on a request, given the requests whose Method it sets to GET
ValidateOutcome(Defaulted(_)) ==
  last'.op = "Validate" =>
    LET jr == conv.jr
    IN /\ conv'.op = "Validate"
       /\ conv'.err # NilError <=> (jr.Type = "" \/ ~RequestValid(jr))
       /\ conv'.err # NilError => conv'.err.type = "ValidationError"
       /\ conv'.jr = IF Defaulted(jr) THEN [jr EXCEPT !.Method = "GET"] ELSE jr
       /\ conv.op = "Validate" => (conv'.err = conv.err /\ conv'.jr = conv.jr)

HTTPWithoutMethod(jr) == jr.Type = "http" /\ jr.Method = ""
ValidHTTPWithoutMethod(jr) == jr.Type = "http" /\ jr.Method = "" /\ jr.URL # ""

\* C29: Validate fails exactly when the type is empty or not one of the four or the
\* field the type requires is empty; on an http request with an empty Method it
\* writes GET into Method and changes nothing else; a second call returns the same
\* and changes nothing
C29_ValidateDefaultsMethod == [][ValidateOutcome(HTTPWithoutMethod)]_vars

\* C29, amended: as above, but Method is written only when the http request has a
\* URL; an http request without URL fails and keeps its empty Method
C29_ValidateDefaultsValidMethod == [][ValidateOutcome(ValidHTTPWithoutMethod)]_vars

\* a valid http request got its Method defaulted, and a second call changed nothing
C29_Witness ==
  /\ conv.op = "Validate" /\ calls = 2
  /\ conv.jr.Type = "http" /\ conv.jr.Method = "GET" /\ conv.jr.URL # ""
  /\ conv.before = conv.jr /\ conv.err = NilError

\* C30: two calls of GenerateJobID never return the same ID
C30_IDsDiffer ==
  \A c, d \in Callers :
    (c # d /\ gen[c].pc = "done" /\ gen[d].pc = "done") => gen[c].id # gen[d].id

\* C32: IsTerminal holds exactly in the statuses that can transition nowhere, which
\* are completed, failed and cancelled; IsRunning exactly in running; IsPending
\* exactly in pending and queued; every status that is not terminal can transition
\* to cancelled
C32_StatusMethods ==
  \A a \in held :
    LET status == heap[a].Status
    IN /\ IsTerminal(status) <=> \A target \in JobStatuses : ~CanTransitionTo(status, target)
       /\ IsTerminal(status) <=> status \in {"completed", "failed", "cancelled"}
       /\ IsRunning(status) <=> status = "running"
       /\ IsPending(status) <=> status \in {"pending", "queued"}
       /\ ~IsTerminal(status) => CanTransitionTo(status, "cancelled")

\* a job that had started was cancelled
C32_Witness ==
  /\ last.op = "Job.UpdateStatus" /\ last.arg = "cancelled" /\ last.err = NoError
  /\ heap[last.addr].Status = "cancelled" /\ heap[last.addr].StartedAt # NIL
  /\ IsTerminal(heap[last.addr].Status)

\* C34: a job that starts pending and changes only through UpdateStatus has
\* CompletedAt set exactly in completed, failed and cancelled, and has StartedAt
\* set in running, retrying, completed and failed
C34_TimestampsFollowStatus ==
  \A a \in held :
    /\ heap[a].CompletedAt # NIL <=> heap[a].Status \in {"completed", "failed", "cancelled"}
    /\ heap[a].Status \in {"running", "retrying", "completed", "failed"} => heap[a].StartedAt # NIL
    /\ heap[a].StartedAt = NIL => heap[a].Status \in {"pending", "queued", "cancelled"}

\* a job failed from retrying: both timestamps are set
C34_Witness ==
  /\ last.op = "Job.UpdateStatus" /\ last.arg = "failed" /\ last.err = NoError
  /\ heap[last.addr].Status = "failed"
  /\ heap[last.addr].StartedAt # NIL /\ heap[last.addr].CompletedAt # NIL

\* C35: when Stop returns nil the worker has nothing in flight, and nothing is
\* registered on it in the step after
C35_StoppedIsDrained ==
  [][\A w \in Workers :
       /\ (last'.op = "Stop" /\ last'.arg = w /\ last'.err = NoError)
            => GetCurrentLoad(w)' = 0
       /\ (last.op = "Stop" /\ last.arg = w /\ last.err = NoError /\ ~isRunning'[w])
            => GetCurrentLoad(w)' = 0]_vars

\* C36: every Stop call returns in the end, also when a job in flight never finishes
\* and the caller never cancels, as long as the ticker and the timer fire
C36_StopReturns == \A w \in Workers : (stopping[w] # "no") ~> (stopping[w] = "no")

\* Stop returned on the timer while a job was still executing on the worker
C36_Witness ==
  /\ last.op = "Stop" /\ last.res = "timeout"
  /\ \E e \in ExecIDs : execs[e].pc = "executing" /\ execs[e].w = last.arg

\* the ExecuteJob calls on w that have registered their job and not returned
RegisteredCalls(w) ==
  {e \in ExecIDs : execs[e].w = w /\ execs[e].registered /\ execs[e].pc # "done"}

\* C37: GetCurrentLoad is the number of ExecuteJob calls on the worker that have
\* registered their job and not yet returned
C37_LoadCountsCalls ==
  \A w \in Workers : GetCurrentLoad(w) = Cardinality(RegisteredCalls(w))

\* C38: when ExecuteJob returns an error, the job it was given has the Status and
\* the WorkerID it had when the call was made (stated for a call that no other
\* call ran beside)
C38_ErrorLeavesJob ==
  [][\A e \in ExecIDs :
       (/\ last'.op = "ExecuteJob" /\ last'.arg = e /\ last'.err # NoError
        /\ Stepped(e)
        /\ \A d \in ExecIDs \ {e} : execs'[d].pc = "idle")
         => <<heap'[execs'[e].j].Status, heap'[execs'[e].j].WorkerID>> = execs'[e].before]_vars

\* C39: when Start returns an error the worker is not running: IsHealthy and
\* CanAcceptJob are false after it
C39_FailedStartNotRunning ==
  [][\A w \in Workers :
       (last'.op = "Start" /\ last'.arg = w /\ last'.err # NoError)
         => ~IsHealthy(w)' /\ ~CanAcceptJob(w)']_vars

Fields == {"isRunning", "isHealthy", "lastHeartbeat", "currentJobs"}

\* goroutine g is in the middle of a read or a write of the field
Accessing(g, kind, field) == goroutines[g].inside /\ Instr(g) = <<kind, field>>

\* C40: every write of a shared field of the worker happens with its mutex
\* locked and every read with it locked or read-locked, and no write by Start,
\* Stop, SetHealthy or ExecuteJob is under way at the same time as a read of the
\* same field by IsHealthy, GetInfo or one of the two loops
C40_LocksGuardState ==
  /\ \A g \in Goroutines, field \in Fields :
       /\ Accessing(g, "write", field) => HoldsLock(g, GuardedBy(field))
       /\ Accessing(g, "read", field) =>
            HoldsLock(g, GuardedBy(field)) \/ HoldsRLock(g, GuardedBy(field))
  /\ \A g, h \in Goroutines, field \in Fields :
       ~ /\ g # h
         /\ Accessing(g, "write", field)
         /\ goroutines[g].op \in {"Start", "Stop", "SetHealthy", "ExecuteJob"}
         /\ Accessing(h, "read", field)
         /\ goroutines[h].op \in {"IsHealthy", "GetInfo", "heartbeatLoop", "jobPollingLoop"}

\* C31: when ExecuteJob, the only call on a running worker, returns for a job
\* that was pending (as ToJob makes it) or queued when the call was made, and the
\* executor reported neither a failed run nor an error of its own, the job
\* record is completed with exit code 0
C31_EndToEndCompleted ==
  [][\A e \in ExecIDs :
       (/\ last'.op = "ExecuteJob" /\ last'.arg = e
        /\ Stepped(e)
        /\ \A d \in ExecIDs \ {e} : execs'[d].pc = "idle"
        /\ execs'[e].before[1] \in {JobStatusPending, JobStatusQueued}
        /\ last'.res # JobStatusFailed
        /\ last'.err # ExecuteError)
         => /\ heap'[execs'[e].j].Status = JobStatusCompleted
            /\ heap'[execs'[e].j].ExitCode = 0]_vars

\* C33: the output of a command job is stdout followed by stderr, with the
\* separator between them whenever stderr is not empty, and stdout alone
\* when stderr is empty
C33_SeparatorWithStderr ==
  (run.pc = "done" /\ run.j.Type = JobTypeCommand) =>
    LET stdout == run.outcome.streams[1]
        stderr == run.outcome.streams[2]
    IN run.outcome.output = IF stderr # "" THEN stdout \o Separator \o stderr ELSE stdout

====
